---- MODULE Spec2Model ----
(***************************************************************************)
(* Bouldering simulator: the climber state machine of App (the frame loop, *)
(* the limb-placement, chalk, drag and reset handlers) together with the   *)
(* physics helpers of utils/gameUtils it calls.                            *)
(*                                                                         *)
(* Numbers.  The program computes in IEEE doubles; the model computes in   *)
(* fixed point.  Wall coordinates, velocities, the balance score and the   *)
(* friction penalty are integers in hundredths of a unit (13.65 is 1365);  *)
(* stamina, chalk and arm pump are integers in ten-thousandths of a point  *)
(* (100 is 1000000, the chalk rate 0.02 is 200).  Angles are whole         *)
(* degrees.  Every comparison the code makes is made on these integers.    *)
(***************************************************************************)
EXTENDS Integers, Sequences, FiniteSets, TLC

VARIABLES
    climber,             \* App: const [climber, setClimber]
    level,               \* App: const [level, setLevel]
    mode,                \* App: const [mode, setMode]
    editorTool,          \* App: const [editorTool, setEditorTool]
    infiniteStamina,     \* App: const [infiniteStamina, ...]
    realismMode,         \* App: const [realismMode, ...]
    isUserDragging,      \* App: const [isUserDragging, ...]
    isSlipping,          \* App: const [isSlipping, ...]
    staminaAccumulator,  \* App: staminaAccumulatorRef.current (ms)
    prevCOM,             \* App: prevCOMRef.current
    dragTarget,          \* BoulderingWall: const [dragTarget, ...]
    dragOffset,          \* BoulderingWall: const [dragOffset, ...]
    generating,          \* App: isGenerating, and the level the pending handler closed over
    sinceEvaluation,     \* frames run since the last drain evaluation, 3 for three or more
    call,                \* the gameUtils helper last called on its own: arguments and result
    lastEvent,           \* the handler that produced this state
    ticks,               \* frames run so far
    events               \* user events handled so far

vars == <<climber, level, mode, editorTool, infiniteStamina, realismMode, isUserDragging,
          isSlipping, staminaAccumulator, prevCOM, dragTarget, dragOffset,
          generating, sinceEvaluation, call, lastEvent, ticks, events>>

----------------------------------------------------------------------------
(* Bounds of the exploration *)

MaxTicks == 2
MaxEvents == 3
MaxFrames == 7
MaxFallFrames == 12

----------------------------------------------------------------------------
(* Arithmetic *)

Min(a, b) == IF a < b THEN a ELSE b
Max(a, b) == IF a > b THEN a ELSE b
Abs(a) == IF a < 0 THEN -a ELSE a

\* a / b rounded to the nearest integer (b > 0), the fixed-point division
RDiv(a, b) == IF a >= 0 THEN (2 * a + b) \div (2 * b)
                        ELSE -((2 * (-a) + b) \div (2 * b))

RECURSIVE SqrtSearch(_, _, _)
SqrtSearch(n, lo, hi) ==
    IF lo >= hi THEN lo
    ELSE LET mid == (lo + hi + 1) \div 2
         IN  IF mid * mid <= n THEN SqrtSearch(n, mid, hi)
                               ELSE SqrtSearch(n, lo, mid - 1)

\* Math.sqrt on hundredths: the integer square root
Sqrt(n) == SqrtSearch(n, 0, 46340)

Point(x, y) == [x |-> x, y |-> y]

----------------------------------------------------------------------------
(* constants.ts *)

INITIAL_STAMINA == 1000000
INITIAL_CHALK == 1000000

ANATOMY == [torsoHeight |-> 1100, shoulderWidth |-> 650, hipWidth |-> 350,
            armUpper |-> 650, armLower |-> 650, legUpper |-> 800,
            legLower |-> 800]

MAX_REACH == [hand |-> ANATOMY.armUpper + ANATOMY.armLower,
              foot |-> ANATOMY.legUpper + ANATOMY.legLower]

HoldTypes == {"jug", "crimp", "sloper", "pocket", "volume", "start", "finish"}

\* per evaluation, in ten-thousandths
HOLD_STAMINA_DRAIN == [jug |-> 50, start |-> 0, finish |-> 50, volume |-> 100,
                       pocket |-> 400, sloper |-> 500, crimp |-> 1000]

\* in thousandths
HOLD_FRICTION == [jug |-> 1000, start |-> 1000, finish |-> 1000, crimp |-> 900,
                  pocket |-> 900, volume |-> 300, sloper |-> 200]

Hold(id, x, y, type, rotation) ==
    [id |-> id, x |-> x, y |-> y, type |-> type, rotation |-> rotation]

\* SAMPLE_LEVELS[0], 'Intro Warmup'
LEVEL_1_HOLDS ==
    << Hold("start1", 4500, 7000, "start", 0),
       Hold("start2", 5500, 7000, "start", 0),
       Hold("foot1", 4000, 9500, "crimp", 0),
       Hold("foot2", 6000, 9500, "crimp", 0),
       Hold("f1", 3500, 6000, "sloper", -45),
       Hold("f2", 6500, 5500, "sloper", 45),
       Hold("vol1", 5000, 4500, "volume", 0),
       Hold("c1", 4000, 3500, "crimp", 90),
       Hold("c2", 6000, 3500, "crimp", -90),
       Hold("j1", 4200, 2200, "pocket", 0),
       Hold("finish", 5000, 1200, "finish", 0) >>

\* 'Slab Ballet'
LEVEL_11_HOLDS ==
    << Hold("s1", 4500, 7000, "start", 0),
       Hold("s2", 5500, 7000, "start", 0),
       Hold("ft1", 5000, 9500, "crimp", 0),
       Hold("v1", 5000, 6000, "volume", 0),
       Hold("c1", 3500, 5000, "crimp", 90),
       Hold("c2", 6500, 4500, "crimp", -90),
       Hold("j1", 5000, 3000, "pocket", 0),
       Hold("f1", 5000, 1500, "finish", 0) >>

\* 'Crimp City'
LEVEL_4_HOLDS ==
    << Hold("s1", 4500, 7000, "start", 0),
       Hold("s2", 5500, 7000, "start", 0),
       Hold("ft1", 3500, 9500, "crimp", 0),
       Hold("ft2", 6500, 9500, "crimp", 0),
       Hold("c1", 3500, 6000, "crimp", 90),
       Hold("c2", 6500, 5500, "crimp", -90),
       Hold("c3", 4500, 4500, "crimp", 0),
       Hold("c4", 5500, 3500, "crimp", 180),
       Hold("c5", 3500, 2500, "crimp", 45),
       Hold("p1", 5000, 2000, "pocket", 0),
       Hold("f1", 5000, 1000, "finish", 0) >>

Level(id, angle, height, holds) ==
    [id |-> id, angle |-> angle, height |-> height, holds |-> holds]

\* the bouldering entries of SAMPLE_LEVELS the model selects among
\* (none sets height: getGroundY falls back to 100)
BOULDERING_LEVELS ==
    << Level("lvl1", 0, 0, LEVEL_1_HOLDS),
       Level("lvl4", 15, 0, LEVEL_4_HOLDS),
       Level("lvl11", -10, 0, LEVEL_11_HOLDS) >>

\* generateSportRoute: the holds of a route of the given height.  The
\* Math.random() draws are taken at the middle of their range: no sway (every
\* hand hold at x = 50), rotation 0, no intermediate foot hold; the types
\* are those of a difficulty below 5.12 (jugs).
generateSportRoute(id, height, angle) ==
    LET moves == height \div 1500
        \* y decreases with i: the loop's break at y < 20 keeps the holds below it
        aboveFinish(h) == h.y >= 2000
        hands == SelectSeq([k \in 1..(moves - 2) |->
                              Hold(id \o "_h" \o ToString(k + 1), 5000,
                                   (height - 2800) - k * 1500, "jug", 0)],
                           aboveFinish)
    IN  Level(id, angle, height,
              << Hold(id \o "_s1", 4500, height - 2800, "start", 0),
                 Hold(id \o "_s2", 5500, height - 2800, "start", 0),
                 Hold(id \o "_sf1", 4000, height - 500, "crimp", 0),
                 Hold(id \o "_sf2", 6000, height - 500, "crimp", 0) >>
              \o hands
              \o << Hold(id \o "_finish", 5000, 1000, "finish", 0) >>)

\* 'The Spire', the first of the sport routes
SPORT_LEVELS == << generateSportRoute("sport1", 20000, 0) >>

SAMPLE_LEVELS == BOULDERING_LEVELS \o SPORT_LEVELS

----------------------------------------------------------------------------
(* types.ts: LimbState.  null, a Point (smearing) or an AttachedLimb.      *)

Limbs == {"leftHand", "rightHand", "leftFoot", "rightFoot"}

Null == [tag |-> "null", x |-> 0, y |-> 0, holdId |-> ""]
Smear(x, y) == [tag |-> "point", x |-> x, y |-> y, holdId |-> ""]
Attached(holdId, x, y) == [tag |-> "hold", x |-> x, y |-> y, holdId |-> holdId]

\* val !== null
NotNull(val) == val.tag # "null"

----------------------------------------------------------------------------
(* utils/gameUtils.ts *)

\* val && typeof val === 'object' && 'holdId' in val
isAttached(val) == val.tag = "hold"

\* a Point that is not an AttachedLimb
isSmearing(val) == val.tag = "point"

\* holds.find(h => h.id === id): the first index with that id, 0 for undefined
FindHold(holds, id) ==
    LET hits == {i \in 1..Len(holds) : holds[i].id = id}
    IN  IF hits = {} THEN 0 ELSE CHOOSE i \in hits : \A j \in hits : i <= j

DistSq(p1, p2) == (p2.x - p1.x) * (p2.x - p1.x) + (p2.y - p1.y) * (p2.y - p1.y)

calculateDistance(p1, p2) == Sqrt(DistSq(p1, p2))

\* calculateDistance(p1, p2) <= maxReach, compared on the squares
isReachable(shoulderPoint, target, maxReach) ==
    DistSq(shoulderPoint, target) <= maxReach * maxReach

\* tan(k degrees) * 1000 for k = 1..89
Tan1000 ==
    << 17, 35, 52, 70, 87, 105, 123, 141, 158, 176, 194, 213, 231, 249, 268,
       287, 306, 325, 344, 364, 384, 404, 424, 445, 466, 488, 510, 532, 554,
       577, 601, 625, 649, 675, 700, 727, 754, 781, 810, 839, 869, 900, 933,
       966, 1000, 1036, 1072, 1111, 1150, 1192, 1235, 1280, 1327, 1376, 1428,
       1483, 1540, 1600, 1664, 1732, 1804, 1881, 1963, 2050, 2145, 2246, 2356,
       2475, 2605, 2747, 2904, 3078, 3271, 3487, 3732, 4011, 4331, 4705, 5145,
       5671, 6314, 7115, 8144, 9514, 11430, 14301, 19081, 28636, 57290 >>

\* the largest k in lo..hi with tan(k degrees) <= opp / adj (lo when none)
RECURSIVE AtanSearch(_, _, _, _)
AtanSearch(opp, adj, lo, hi) ==
    IF lo >= hi THEN lo
    ELSE LET mid == (lo + hi + 1) \div 2
         IN  IF Tan1000[mid] * adj <= opp * 1000 THEN AtanSearch(opp, adj, mid, hi)
                                                 ELSE AtanSearch(opp, adj, lo, mid - 1)

\* atan(opp / adj) in whole degrees, 0..90, for opp >= 0 and adj >= 0
AtanDeg(opp, adj) ==
    IF adj = 0 THEN (IF opp = 0 THEN 0 ELSE 90)
    ELSE AtanSearch(opp, adj, 0, 89)

\* getAngle: degrees in [0, 360), 0 right, 90 down, 180 left, 270 up
getAngle(p1, p2) ==
    LET dy == p2.y - p1.y
        dx == p2.x - p1.x
    IN  IF dy >= 0
        THEN (IF dx >= 0 THEN AtanDeg(dy, dx) ELSE 180 - AtanDeg(dy, -dx))
        ELSE (IF dx >= 0 THEN (360 - AtanDeg(-dy, dx)) % 360
                         ELSE 180 + AtanDeg(-dy, -dx))

getAngleDiff(a, b) ==
    LET diff == Abs(a - b)
    IN  IF diff > 180 THEN 360 - diff ELSE diff

\* sin and cos of the wall angle, in thousandths, for the angles of the
\* editor's slider (-10..60 in steps of 5)
SinCos1000(angle) ==
    CASE angle = -10 -> <<-174, 985>>
      [] angle = -5  -> <<-87, 996>>
      [] angle = 0   -> <<0, 1000>>
      [] angle = 5   -> <<87, 996>>
      [] angle = 10  -> <<174, 985>>
      [] angle = 15  -> <<259, 966>>
      [] angle = 20  -> <<342, 940>>
      [] angle = 25  -> <<423, 906>>
      [] angle = 30  -> <<500, 866>>
      [] angle = 35  -> <<574, 819>>
      [] angle = 40  -> <<643, 766>>
      [] angle = 45  -> <<707, 707>>
      [] angle = 50  -> <<766, 643>>
      [] angle = 55  -> <<819, 574>>
      [] angle = 60  -> <<866, 500>>

Sin1000(angle) == SinCos1000(angle)[1]
Cos1000(angle) == SinCos1000(angle)[2]

----------------------------------------------------------------------------
(* Body constraint solver *)

\* the fixed offset of each limb's shoulder / hip anchor from the center of mass
AnchorOffset(limb) ==
    CASE limb = "leftHand"  -> Point(-(ANATOMY.shoulderWidth \div 2), -((ANATOMY.torsoHeight * 85) \div 100))
      [] limb = "rightHand" -> Point(ANATOMY.shoulderWidth \div 2, -((ANATOMY.torsoHeight * 85) \div 100))
      [] limb = "leftFoot"  -> Point(-(ANATOMY.hipWidth \div 2), 150)
      [] limb = "rightFoot" -> Point(ANATOMY.hipWidth \div 2, 150)

LimbReach(limb) ==
    IF limb \in {"leftHand", "rightHand"} THEN MAX_REACH.hand ELSE MAX_REACH.foot

Anchor(com, limb) == Point(com.x + AnchorOffset(limb).x, com.y + AnchorOffset(limb).y)

\* a constraint that pushes the body away from a limb however close it lies
applyConstraintNoDeadZone(currentCOM, val, maxLen, offsetFromCOM, minLen) ==
    IF ~NotNull(val) THEN currentCOM
    ELSE
    LET anchorX == currentCOM.x + offsetFromCOM.x
        anchorY == currentCOM.y + offsetFromCOM.y
        dx == val.x - anchorX
        dy == val.y - anchorY
        dd == dx * dx + dy * dy
        dist == Sqrt(dd)
    IN  IF dd > maxLen * maxLen
        THEN Point(val.x - RDiv(dx * maxLen, dist) - offsetFromCOM.x,
                   val.y - RDiv(dy * maxLen, dist) - offsetFromCOM.y)
        ELSE IF dd < minLen * minLen /\ dd > 0
        THEN Point(val.x - RDiv(dx * minLen, dist) - offsetFromCOM.x,
                   val.y - RDiv(dy * minLen, dist) - offsetFromCOM.y)
        ELSE currentCOM

applyConstraint(currentCOM, val, maxLen, offsetFromCOM, minLen) ==
    IF ~NotNull(val) THEN currentCOM
    ELSE
    LET anchorX == currentCOM.x + offsetFromCOM.x
        anchorY == currentCOM.y + offsetFromCOM.y
        dx == val.x - anchorX
        dy == val.y - anchorY
        dd == dx * dx + dy * dy
        dist == Sqrt(dd)
    IN  IF dd > maxLen * maxLen
        THEN \* max reach: pull the body towards the limb
             Point(val.x - RDiv(dx * maxLen, dist) - offsetFromCOM.x,
                   val.y - RDiv(dy * maxLen, dist) - offsetFromCOM.y)
        ELSE IF dd < minLen * minLen /\ dd > 10 * 10
        THEN \* min compression: push the body away from the limb
             Point(val.x - RDiv(dx * minLen, dist) - offsetFromCOM.x,
                   val.y - RDiv(dy * minLen, dist) - offsetFromCOM.y)
        ELSE currentCOM

MIN_COMPRESSION == 300

\* one relaxation pass: hands before feet, left before right
ConstrainPass(com, limbs) ==
    LET HAND_REACH == (MAX_REACH.hand * 99) \div 100
        FOOT_REACH == (MAX_REACH.foot * 99) \div 100
        r1 == applyConstraint(com, limbs.leftHand, HAND_REACH, AnchorOffset("leftHand"), MIN_COMPRESSION)
        r2 == applyConstraint(r1, limbs.rightHand, HAND_REACH, AnchorOffset("rightHand"), MIN_COMPRESSION)
        r3 == applyConstraint(r2, limbs.leftFoot, FOOT_REACH, AnchorOffset("leftFoot"), MIN_COMPRESSION)
    IN  applyConstraint(r3, limbs.rightFoot, FOOT_REACH, AnchorOffset("rightFoot"), MIN_COMPRESSION)

\* ITERATIONS = 4
constrainBodyPosition(proposedCOM, limbs) ==
    ConstrainPass(ConstrainPass(ConstrainPass(ConstrainPass(proposedCOM, limbs), limbs), limbs), limbs)

----------------------------------------------------------------------------
(* Two-bone inverse kinematics *)

\* sin(k degrees) * 1000 for k = 0..90, at index k + 1
SinTable ==
    << 0, 17, 35, 52, 70, 87, 105, 122, 139, 156, 174, 191, 208, 225, 242,
       259, 276, 292, 309, 326, 342, 358, 375, 391, 407, 423, 438, 454,
       469, 485, 500, 515, 530, 545, 559, 574, 588, 602, 616, 629, 643,
       656, 669, 682, 695, 707, 719, 731, 743, 755, 766, 777, 788, 799,
       809, 819, 829, 839, 848, 857, 866, 875, 883, 891, 899, 906, 914,
       921, 927, 934, 940, 946, 951, 956, 961, 966, 970, 974, 978, 982,
       985, 988, 990, 993, 995, 996, 998, 999, 999, 1000, 1000 >>

\* Math.sin and Math.cos in thousandths, of an angle in whole degrees
SinDeg(a) ==
    LET t == a % 360
    IN  IF t <= 90 THEN SinTable[t + 1]
        ELSE IF t <= 180 THEN SinTable[180 - t + 1]
        ELSE IF t <= 270 THEN -SinTable[t - 180 + 1]
        ELSE -SinTable[360 - t + 1]

CosDeg(a) == SinDeg(a + 90)

\* A JavaScript number that may be NaN: v in thousandths when nan is FALSE.
Num(v) == [nan |-> FALSE, v |-> v]
NaN == [nan |-> TRUE, v |-> 0]

\* Infinity, as a finite number beyond every value compared with it
Infinity == 1000000000

\* a / b (a >= 0, b > 0) rounded to thousandths, by long division
Thousandths(a, b) ==
    LET r == a % b
        hundredths == (r * 100) \div b
    IN  (a \div b) * 1000 + hundredths * 10 + RDiv(((r * 100) % b) * 10, b)

\* a / b in thousandths: x / 0 is Infinity or -Infinity, 0 / 0 is NaN
JsDiv(a, b) ==
    IF b # 0 THEN Num(IF a >= 0 THEN Thousandths(a, b) ELSE -Thousandths(-a, b))
    ELSE IF a = 0 THEN NaN
    ELSE Num(IF a > 0 THEN Infinity ELSE -Infinity)

\* Math.acos in whole degrees, 0..180: NaN outside [-1, 1]
Acos(q) ==
    IF q.nan \/ q.v > 1000 \/ q.v < -1000 THEN NaN
    ELSE Num(CHOOSE k \in 0..180 :
                \A j \in 0..180 : Abs(CosDeg(k) - q.v) <= Abs(CosDeg(j) - q.v))

\* the point solveIK returns when its angle is NaN: { x: NaN, y: NaN }
NaNPoint == [nan |-> TRUE]

\* isFinite of both coordinates
FinitePoint(p) == "nan" \notin DOMAIN p

\* a distance with the 1.0 floor left out
IKSafeDistUnfloored(dist) == dist

\* Math.max(dist, 1.0)
IKSafeDist(dist) == Max(dist, 100)

\* a cosine with the clamp to [-1, 1] left out
IKClampNone(q) == q

\* Math.max(-1, Math.min(1, q)): NaN stays NaN
IKClamp(q) == IF q.nan THEN NaN ELSE Num(Max(-1000, Min(1000, q.v)))

\* the extended branch returning the point at length1 along the ray
IKExtendedAtLength1(p1, p2, length1, length2) ==
    LET dist == calculateDistance(p1, p2)
    IN  Point(p1.x + RDiv((p2.x - p1.x) * length1, dist),
              p1.y + RDiv((p2.y - p1.y) * length1, dist))

\* dist >= length1 + length2 - 0.1: ratio = length1 / (length1 + length2)
IKExtended(p1, p2, length1, length2) ==
    Point(p1.x + RDiv((p2.x - p1.x) * length1, length1 + length2),
          p1.y + RDiv((p2.y - p1.y) * length1, length1 + length2))

\* the law-of-cosines branch
IKBent(p1, p2, length1, length2, bendRight) ==
    LET safeDist == IKSafeDist(calculateDistance(p1, p2))
        cosAngle == IKClamp(JsDiv(safeDist * safeDist + length1 * length1 - length2 * length2,
                                  2 * safeDist * length1))
        angle == Acos(cosAngle)
        \* Math.atan2(0, 0) is 0
        baseAngle == IF p1 = p2 THEN 0 ELSE getAngle(p1, p2)
        totalAngle == IF bendRight THEN baseAngle + angle.v ELSE baseAngle - angle.v
    IN  IF angle.nan THEN NaNPoint
        ELSE Point(p1.x + RDiv(CosDeg(totalAngle) * length1, 1000),
                   p1.y + RDiv(SinDeg(totalAngle) * length1, 1000))

solveIK(p1, p2, length1, length2, bendRight) ==
    IF calculateDistance(p1, p2) >= length1 + length2 - 10
    THEN IKExtended(p1, p2, length1, length2)
    ELSE IKBent(p1, p2, length1, length2, bendRight)

----------------------------------------------------------------------------
(* Friction / slip model *)

\* a % n of JavaScript: the sign of the dividend
JsMod(a, n) == IF a >= 0 THEN a % n ELSE -((-a) % n)

\* the per-hold-type ideal pull angle and tolerance window of a hand
HandWindow(hold, realism) ==
    LET turned == JsMod(hold.rotation + 90, 360)
    IN  CASE hold.type = "jug"    -> [ideal |-> turned, tolerance |-> 160]
          [] hold.type = "crimp"  -> [ideal |-> turned, tolerance |-> IF realism THEN 30 ELSE 60]
          [] hold.type = "sloper" -> [ideal |-> turned, tolerance |-> IF realism THEN 20 ELSE 40]
          [] hold.type = "pocket" -> [ideal |-> turned, tolerance |-> IF realism THEN 35 ELSE 70]
          [] hold.type = "volume" -> [ideal |-> turned, tolerance |-> IF realism THEN 40 ELSE 80]
          [] OTHER                -> [ideal |-> 90, tolerance |-> 180]

\* the penalty of one foot when at least one foot is in contact
FootPenalty(foot, holds, wallAngle, realism) ==
    IF isAttached(foot)
    THEN LET i == FindHold(holds, foot.holdId)
         IN  IF i = 0 THEN 0
             ELSE LET friction == IF wallAngle < 0
                                  THEN (HOLD_FRICTION[holds[i].type] * 12) \div 10
                                  ELSE RDiv(HOLD_FRICTION[holds[i].type] * Cos1000(wallAngle), 1000)
                  IN  IF friction < 300 THEN (300 - friction) * 5 ELSE 0
    ELSE IF isSmearing(foot)
    THEN (IF wallAngle < 0 THEN 200
          ELSE IF wallAngle <= 10 THEN 1000
          ELSE (IF realism THEN 4500 ELSE 3000) + wallAngle * 150)
    ELSE 0

\* the directional penalty of one hand
HandPenalty(hand, com, holds, realism) ==
    IF ~isAttached(hand) THEN 0
    ELSE LET i == FindHold(holds, hand.holdId)
         IN  IF i = 0 THEN 0
             ELSE LET pullAngle == getAngle(Point(hand.x, hand.y), Point(com.x, com.y - 1000))
                      w == HandWindow(holds[i], realism)
                      diff == getAngleDiff(pullAngle, w.ideal)
                  IN  IF diff > w.tolerance
                      THEN RDiv((diff - w.tolerance) * (IF realism THEN 8000 ELSE 4000),
                                180 - w.tolerance)
                      ELSE 0

\* the friction penalty with the chalk term left out
getFrictionPenaltyNoChalk(state, holds, wallAngle, realism) ==
    LET feet == {l \in {"leftFoot", "rightFoot"} : NotNull(state.limbs[l])}
        hands == {l \in {"leftHand", "rightHand"} : NotNull(state.limbs[l])}
    IN  (IF feet = {}
         THEN (IF hands # {}
               THEN (IF wallAngle < 0 THEN 15000 ELSE 3000) + Max(0, wallAngle - 10) * 80
               ELSE 0)
         ELSE FootPenalty(state.limbs.leftFoot, holds, wallAngle, realism)
              + FootPenalty(state.limbs.rightFoot, holds, wallAngle, realism))
        + HandPenalty(state.limbs.leftHand, state.centerOfMass, holds, realism)
        + HandPenalty(state.limbs.rightHand, state.centerOfMass, holds, realism)

getFrictionPenalty(state, holds, wallAngle, realism) ==
    LET chalkPenalty == RDiv(Max(0, 300000 - state.chalk) * (IF realism THEN 8 ELSE 5), 1000)
        feet == {l \in {"leftFoot", "rightFoot"} : NotNull(state.limbs[l])}
        hands == {l \in {"leftHand", "rightHand"} : NotNull(state.limbs[l])}
        feetPenalty ==
            IF feet = {}
            THEN (IF hands # {}
                  THEN (IF wallAngle < 0 THEN 15000 ELSE 3000) + Max(0, wallAngle - 10) * 80
                  ELSE 0)
            ELSE FootPenalty(state.limbs.leftFoot, holds, wallAngle, realism)
                 + FootPenalty(state.limbs.rightFoot, holds, wallAngle, realism)
        handsPenalty ==
            HandPenalty(state.limbs.leftHand, state.centerOfMass, holds, realism)
            + HandPenalty(state.limbs.rightHand, state.centerOfMass, holds, realism)
    IN  Max(0, chalkPenalty + feetPenalty + handsPenalty)

----------------------------------------------------------------------------
(* Stability model *)

\* the x a limb contributes to the system center of mass
LimbX(state, limb) ==
    IF NotNull(state.limbs[limb]) THEN state.limbs[limb].x
    ELSE IF limb = "leftHand" THEN state.centerOfMass.x - 600
    ELSE IF limb = "rightHand" THEN state.centerOfMass.x + 600
    ELSE state.centerOfMass.x

SumX(state, ls) ==
    (IF "leftHand" \in ls THEN LimbX(state, "leftHand") ELSE 0)
    + (IF "rightHand" \in ls THEN LimbX(state, "rightHand") ELSE 0)
    + (IF "leftFoot" \in ls THEN LimbX(state, "leftFoot") ELSE 0)
    + (IF "rightFoot" \in ls THEN LimbX(state, "rightFoot") ELSE 0)

\* the score before the final clamp
StabilityScore(state, holds, wallAngle, realism) ==
    LET active == {l \in Limbs : NotNull(state.limbs[l])}
        hands == active \cap {"leftHand", "rightHand"}
        feet == active \cap {"leftFoot", "rightFoot"}
        vx == state.velocity.x
        vy == state.velocity.y
        velocityMag == Sqrt(vx * vx + vy * vy)
        supportX == RDiv(SumX(state, active), Cardinality(active))
        \* BODY_WEIGHT 0.6, LIMB_WEIGHT 0.1 for each of the four limbs
        systemCOM_X == RDiv(6 * state.centerOfMass.x + SumX(state, Limbs), 10)
        dev0 == Abs(systemCOM_X - supportX)
        footSpread == IF Cardinality(feet) = 2
                      THEN Abs(state.limbs.leftFoot.x - state.limbs.rightFoot.x)
                      ELSE 0
        dev1 == IF wallAngle > 0 /\ Cardinality(hands) = 1
                THEN LET hand == state.limbs[CHOOSE h \in hands : TRUE]
                         barn == IF footSpread < 1000 /\ Abs(vx) > 10
                                 THEN dev0 * (IF realism THEN 4 ELSE 3)
                                 ELSE dev0
                     IN  barn + RDiv(Abs(hand.x - systemCOM_X) * (IF realism THEN 20 ELSE 15), 10)
                ELSE dev0
        dev2 == IF wallAngle < 0 /\ feet # {}
                THEN LET avgFootX == RDiv(SumX(state, feet), Cardinality(feet))
                     IN  RDiv(dev1 * 5 + Abs(systemCOM_X - avgFootX) * 25, 10)
                ELSE dev1
        \* dynamicFactor = 1 / (1 + velocityMag * 3)
        deviation == RDiv(dev2 * 100, 100 + 3 * velocityMag)
        swingPenalty == Abs(vx) * (IF wallAngle > 0 THEN 25 ELSE 10)
    IN  getFrictionPenalty(state, holds, wallAngle, realism) + swingPenalty
        + RDiv(deviation * 25, 10)

\* the stability score computed as on a vertical wall, whatever the angle
calculateStabilityFlat(state, holds, wallAngle, realism) ==
    IF \A l \in Limbs : ~NotNull(state.limbs[l]) THEN 0
    ELSE Min(10000, Max(0, StabilityScore(state, holds, 0, realism)))

calculateStability(state, holds, wallAngle, realism) ==
    IF \A l \in Limbs : ~NotNull(state.limbs[l]) THEN 0
    ELSE Min(10000, Max(0, StabilityScore(state, holds, wallAngle, realism)))

----------------------------------------------------------------------------
(* Fatigue model *)

calculateArmPump(state, limb, holds, wallAngle, realism) ==
    LET val == state.limbs[limb]
        i == IF isAttached(val) THEN FindHold(holds, val.holdId) ELSE 0
        feetAttached == Cardinality({l \in {"leftFoot", "rightFoot"} : NotNull(state.limbs[l])})
    IN  IF ~isAttached(val) THEN -500
        ELSE IF i = 0 THEN 0
        ELSE
        LET hold == holds[i]
            \* holdDrains[hold.type] || 0.05
            base == IF HOLD_STAMINA_DRAIN[hold.type] = 0 THEN 500
                    ELSE HOLD_STAMINA_DRAIN[hold.type]
            pullAngle == getAngle(Point(val.x, val.y),
                                  Point(state.centerOfMass.x, state.centerOfMass.y - 800))
            idealAngle == IF hold.type \in {"crimp", "sloper"}
                          THEN JsMod(hold.rotation + 90, 360) ELSE 90
            diff == getAngleDiff(pullAngle, idealAngle)
            \* difficulty *= 1.5 + diff / 45, kept as a fraction over 90
            num == IF realism /\ diff > 45 THEN base * (135 + 2 * diff) ELSE base * 90
            overhang == IF wallAngle > 0 THEN 30 + wallAngle ELSE 30
            foot == IF feetAttached = 0 THEN 5 ELSE 2
        IN  IF hold.type \in {"jug", "start", "finish"} /\ state.balance < 4000 /\ wallAngle < 30
            THEN -300
            ELSE RDiv(num * overhang * foot * 4, 90 * 30 * 2 * 5)

\* the drains with the campusing surcharge left out
calculateTickDrainNoCampus(state, holds, wallAngle, realism) ==
    LET activeLimbsCount == Cardinality({l \in Limbs : NotNull(state.limbs[l])})
        instabilityCost == RDiv(state.balance * (IF realism THEN 5 ELSE 3), 100)
        anglePenalty == IF wallAngle > 0 THEN RDiv(wallAngle * 40, 3) ELSE 0
    IN  IF activeLimbsCount = 0
        THEN [core |-> 0, leftPump |-> -1000, rightPump |-> -1000]
        ELSE [core |-> 50 + anglePenalty + instabilityCost,
              leftPump |-> calculateArmPump(state, "leftHand", holds, wallAngle, realism),
              rightPump |-> calculateArmPump(state, "rightHand", holds, wallAngle, realism)]

calculateTickDrain(state, holds, wallAngle, realism) ==
    LET activeLimbsCount == Cardinality({l \in Limbs : NotNull(state.limbs[l])})
        feetAttached == Cardinality({l \in {"leftFoot", "rightFoot"} : NotNull(state.limbs[l])})
        instabilityCost == RDiv(state.balance * (IF realism THEN 5 ELSE 3), 100)
        anglePenalty == IF wallAngle > 0 THEN RDiv(wallAngle * 40, 3) ELSE 0
        campus == IF feetAttached = 0 /\ wallAngle > 0
                  THEN (IF realism THEN 2500 ELSE 1500) ELSE 0
    IN  IF activeLimbsCount = 0
        THEN [core |-> 0, leftPump |-> -1000, rightPump |-> -1000]
        ELSE [core |-> 50 + anglePenalty + instabilityCost + campus,
              leftPump |-> calculateArmPump(state, "leftHand", holds, wallAngle, realism),
              rightPump |-> calculateArmPump(state, "rightHand", holds, wallAngle, realism)]

----------------------------------------------------------------------------
(* App: spawn settings and the frame loop *)

\* lvl.height || 100
getGroundY(lvl) == IF lvl.height = 0 THEN 10000 ELSE lvl.height

getStartCom(lvl) == Point(5000, getGroundY(lvl) - 1400)

getStartLimbs(lvl) ==
    [leftHand |-> Null, rightHand |-> Null,
     leftFoot |-> Smear(4600, getGroundY(lvl)),
     rightFoot |-> Smear(5400, getGroundY(lvl))]

\* the ClimberState of useState / resetClimber / handleLevelChange
StartClimber(lvl) ==
    [limbs |-> getStartLimbs(lvl),
     stamina |-> INITIAL_STAMINA,
     armPump |-> [left |-> 0, right |-> 0],
     chalk |-> INITIAL_CHALK,
     balance |-> 0,
     status |-> "idle",
     centerOfMass |-> getStartCom(lvl),
     velocity |-> Point(0, 0)]

AllDetached == [leftHand |-> Null, rightHand |-> Null, leftFoot |-> Null, rightFoot |-> Null]

\* [limbs.leftHand, limbs.rightHand].filter(isAttached).length
HandCount(limbs) == Cardinality({l \in {"leftHand", "rightHand"} : isAttached(limbs[l])})

\* velocity from the previous frame's movement, scaled to a 16 ms frame
FrameVelocity(com, prevRef, safeDt) ==
    Point(RDiv((com.x - prevRef.x) * 16, safeDt), RDiv((com.y - prevRef.y) * 16, safeDt))

\* a landing that leaves the stamina as it was
FallingPhysicsNoPenalty(n, lvl) ==
    IF n.centerOfMass.y < getGroundY(lvl) - 500
    THEN [n EXCEPT !.limbs = AllDetached, !.centerOfMass.y = @ + 150]
    ELSE [n EXCEPT !.status = "idle",
                   !.centerOfMass.y = getGroundY(lvl) - 1400,
                   !.limbs = getStartLimbs(lvl)]

\* 0. falling physics
\* a fall that descends 1.0 a frame
FallingPhysicsSlow(n, lvl) ==
    IF n.centerOfMass.y < getGroundY(lvl) - 500
    THEN [n EXCEPT !.limbs = AllDetached, !.centerOfMass.y = @ + 100]
    ELSE [n EXCEPT !.status = "idle",
                   !.centerOfMass = Point(n.centerOfMass.x, getGroundY(lvl) - 1400),
                   !.limbs = getStartLimbs(lvl),
                   !.stamina = 500000]

FallingPhysics(n, lvl) ==
    LET groundY == getGroundY(lvl)
        com == n.centerOfMass
    IN  IF com.y < groundY - 500
        THEN LET x1 == com.x + RDiv(n.velocity.x * 95, 100)
                 x2 == IF x1 < 0 THEN 0 ELSE x1
                 x3 == IF x2 > 10000 THEN 10000 ELSE x2
             IN  [n EXCEPT !.limbs = AllDetached,
                           !.centerOfMass = Point(x3, com.y + 150)]
        ELSE [n EXCEPT !.status = "idle",
                       !.centerOfMass = Point(com.x, groundY - 1400),
                       !.limbs = getStartLimbs(lvl),
                       !.stamina = 500000]

\* a ground on which standing costs stamina
GroundedPoseTiring(n, lvl, still) ==
    [n EXCEPT !.balance = 0,
              !.stamina = Max(0, n.stamina - 5000),
              !.armPump = [left |-> 0, right |-> 0],
              !.status = "idle"]

\* standing on the ground; still: the frame measured vx === 0 && vy === 0
GroundedPose(n, lvl, still) ==
    LET groundY == getGroundY(lvl)
        y0 == n.centerOfMass.y
        y1 == IF still THEN RDiv(y0 * 9 + (groundY - 1400), 10) ELSE y0
        y2 == IF y1 > groundY - 1200 THEN groundY - 1200 ELSE y1
        x == n.centerOfMass.x
    IN  [n EXCEPT !.balance = 0,
                  !.stamina = Min(1000000, n.stamina + 5000),
                  !.armPump = [left |-> 0, right |-> 0],
                  !.status = "idle",
                  !.centerOfMass = Point(x, y2),
                  !.limbs.leftFoot = IF NotNull(@) THEN @ ELSE Smear(x - 400, groundY),
                  !.limbs.rightFoot = IF NotNull(@) THEN @ ELSE Smear(x + 400, groundY)]

\* gravity of the frame, in hundredths
FrameGravity(n, lvl) ==
    LET feet == {l \in {"leftFoot", "rightFoot"} : NotNull(n.limbs[l])}
        sumY == (IF "leftFoot" \in feet THEN n.limbs.leftFoot.y ELSE 0)
                + (IF "rightFoot" \in feet THEN n.limbs.rightFoot.y ELSE 0)
    IN  IF feet # {} /\ n.centerOfMass.y < RDiv(sumY, Cardinality(feet)) + 500
        THEN (IF lvl.angle < 0 THEN 5 ELSE RDiv(20 * Sin1000(lvl.angle), 1000))
        ELSE 20

\* muscle activation: Math.min(1.0, stamina / 20) in thousandths, 0 when the
\* muscles are not active
MuscleStrength(n) ==
    IF HandCount(n.limbs) > 0 /\ n.stamina > 50000
       /\ n.velocity.x * n.velocity.x + n.velocity.y * n.velocity.y < 100 * 100
    THEN Min(1000, n.stamina \div 200)
    ELSE 0

checkAndDetach(limbs, limb, proposedCOM) ==
    IF NotNull(limbs[limb])
       /\ DistSq(Anchor(proposedCOM, limb), limbs[limb])
            > ((LimbReach(limb) * 105) \div 100) * ((LimbReach(limb) * 105) \div 100)
    THEN Null
    ELSE limbs[limb]

\* the centre of mass momentum and gravity propose, before any limb holds it back
ProposedCOM(n, lvl) ==
    LET ms == MuscleStrength(n)
        gravity == RDiv(FrameGravity(n, lvl) * (1000 - RDiv(900 * ms, 1000)), 1000)
        damping == RDiv(920 * (1000 - RDiv(150 * ms, 1000)), 1000)
    IN  Point(n.centerOfMass.x + RDiv(n.velocity.x * damping, 1000),
              n.centerOfMass.y + RDiv(n.velocity.y * damping, 1000) + gravity)

\* a physics step that solves the constraint on the limbs it is about to detach
ClimbingPhysicsConstrainFirst(n, lvl) ==
    [n EXCEPT !.limbs = [l \in Limbs |-> checkAndDetach(n.limbs, l, ProposedCOM(n, lvl))],
              !.centerOfMass = constrainBodyPosition(ProposedCOM(n, lvl), n.limbs)]

\* 1. climbing physics: momentum, gravity, muscles, auto-detach, constraint
ClimbingPhysics(n, lvl) ==
    LET nextLimbs == [l \in Limbs |-> checkAndDetach(n.limbs, l, ProposedCOM(n, lvl))]
    IN  [n EXCEPT !.limbs = nextLimbs,
                  !.centerOfMass = constrainBodyPosition(ProposedCOM(n, lvl), nextLimbs)]

\* a loop that never forces the balance fall
BalanceFallSkipped(n, balanceScore, infinite) == n

\* balance at 100 forces the fall, unless the stamina override is on
BalanceFall(n, balanceScore, infinite) ==
    IF balanceScore >= 10000 /\ ~infinite
    THEN [n EXCEPT !.balance = 10000, !.status = "falling", !.limbs = AllDetached]
    ELSE n

\* stamina left to go below zero
StaminaUnclamped(x) == x

ClampStamina(x) == Max(0, x)
ClampPump(x) == Max(0, Min(1000000, x))
ClampChalk(x) == Max(0, x)

ApplyDrains(n, drains) ==
    [n EXCEPT !.stamina = ClampStamina(n.stamina - drains.core),
              !.armPump = [left |-> ClampPump(n.armPump.left + drains.leftPump),
                           right |-> ClampPump(n.armPump.right + drains.rightPump)],
              !.chalk = ClampChalk(n.chalk - 200)]

\* a loop in which a pumped-out hand holds on
PumpDetachSkipped(n) == n

\* a hand whose pump reached 100 lets go
PumpDetach(n) ==
    [n EXCEPT !.limbs.leftHand = IF n.armPump.left >= 1000000 THEN Null ELSE @,
              !.limbs.rightHand = IF n.armPump.right >= 1000000 THEN Null ELSE @]

\* a loop in which an exhausted climber holds on
StaminaFallSkipped(n) == n

StaminaFall(n) ==
    IF n.stamina <= 0
    THEN [n EXCEPT !.status = "falling", !.limbs = AllDetached]
    ELSE n

\* setClimber's balance write and the forced fall that follows it
ScoreBalance(n, balanceScore, infinite) ==
    BalanceFall([n EXCEPT !.balance = balanceScore], balanceScore, infinite)

\* the drains of the interval and the two failures they trigger
DrainStep(n1, lvl, realism) ==
    StaminaFall(PumpDetach(ApplyDrains(n1,
        calculateTickDrain(n1, lvl.holds, lvl.angle, realism))))

\* a drain interval that does not look at the stamina override
DrainEvaluationAlways(n, lvl, realism, infinite) ==
    DrainStep(ScoreBalance(n, calculateStability(n, lvl.holds, lvl.angle, realism),
                           infinite),
              lvl, realism)

\* the body of the drain interval, once the accumulator has passed 100 ms
DrainEvaluation(n, lvl, realism, infinite) ==
    IF infinite
    THEN ScoreBalance(n, calculateStability(n, lvl.holds, lvl.angle, realism), infinite)
    ELSE DrainStep(ScoreBalance(n, calculateStability(n, lvl.holds, lvl.angle, realism),
                                infinite),
                   lvl, realism)

\* setIsSlipping(frictionPenalty > slipThreshold)
SlipFlag(n, lvl, realism) ==
    getFrictionPenalty(n, lvl.holds, lvl.angle, realism) > (IF realism THEN 1500 ELSE 2000)

\* a check that nudges the unsupported body down and leaves the status alone
CheckFallNudgeOnly(n, lvl, dragging) ==
    IF ~dragging /\ HandCount(n.limbs) = 0 /\ n.centerOfMass.y < getGroundY(lvl) - 1800
    THEN [n EXCEPT !.centerOfMass.y = @ + 100]
    ELSE n

\* 3. check fall
CheckFall(n, lvl, dragging) ==
    IF ~dragging /\ HandCount(n.limbs) = 0 /\ n.centerOfMass.y < getGroundY(lvl) - 1800
    THEN IF n.status = "climbing"
         THEN [n EXCEPT !.centerOfMass.y = @ + 100, !.status = "falling", !.limbs = AllDetached]
         ELSE [n EXCEPT !.centerOfMass.y = @ + 100]
    ELSE n

\* 2. game logic and 3. check fall, on the state n1 the physics left.
\* The result: c the next ClimberState, acc the accumulator, slip the
\* slipping flag, evaluated whether the drain interval fired.
\* the drain interval met at 100 ms instead of beyond it
FrameLogicEarly(n1, acc, slip, lvl, realism, infinite, dragging, safeDt) ==
    LET logic == n1.status = "climbing" /\ ~dragging
        fire == logic /\ acc + safeDt >= 100
    IN  [c |-> CheckFall(IF fire THEN DrainEvaluation(n1, lvl, realism, infinite)
                         ELSE IF logic THEN n1
                         ELSE [n1 EXCEPT !.balance = 0],
                         lvl, dragging),
         acc |-> IF fire THEN 0 ELSE IF logic THEN acc + safeDt ELSE acc,
         slip |-> IF fire THEN SlipFlag(n1, lvl, realism)
                  ELSE IF logic THEN slip ELSE FALSE,
         evaluated |-> fire]

FrameLogic(n1, acc, slip, lvl, realism, infinite, dragging, safeDt) ==
    LET logic == n1.status = "climbing" /\ ~dragging
        fire == logic /\ acc + safeDt > 100
    IN  [c |-> CheckFall(IF fire THEN DrainEvaluation(n1, lvl, realism, infinite)
                         ELSE IF logic THEN n1
                         ELSE [n1 EXCEPT !.balance = 0],
                         lvl, dragging),
         acc |-> IF fire THEN 0 ELSE IF logic THEN acc + safeDt ELSE acc,
         slip |-> IF fire THEN SlipFlag(n1, lvl, realism)
                  ELSE IF logic THEN slip ELSE FALSE,
         evaluated |-> fire]

\* One frame of the loop: the setClimber updater with the refs it writes.
Frame(prev, prevRef, acc, slip, lvl, realism, infinite, dragging, safeDt) ==
    LET n0 == [prev EXCEPT !.velocity = FrameVelocity(prev.centerOfMass, prevRef, safeDt)]
        still == prev.centerOfMass = prevRef
        isGrounded == prev.centerOfMass.y >= getGroundY(lvl) - 1600
    IN  IF prev.status = "falling"
        THEN [c |-> FallingPhysics(n0, lvl), acc |-> acc, slip |-> slip, evaluated |-> FALSE]
        ELSE IF isGrounded /\ ~dragging
        THEN [c |-> GroundedPose(n0, lvl, still), acc |-> acc, slip |-> FALSE, evaluated |-> FALSE]
        ELSE FrameLogic(IF ~dragging THEN ClimbingPhysics(n0, lvl) ELSE n0,
                        acc, slip, lvl, realism, infinite, dragging, safeDt)

----------------------------------------------------------------------------
(* App: handlers *)

HoldTypeOf(lvl, val) ==
    LET i == FindHold(lvl.holds, val.holdId)
    IN  IF i = 0 THEN "undefined" ELSE lvl.holds[i].type

\* a placement that stores the limb and leaves the status alone
PlaceLimbKeepStatus(prev, lvl, val, limb) == [prev EXCEPT !.limbs[limb] = val]

\* handlePlaceLimb
PlaceLimb(prev, lvl, val, limb) ==
    LET nextLimbs == [prev.limbs EXCEPT ![limb] = val]
        lhVal == nextLimbs.leftHand
        rhVal == nextLimbs.rightHand
        topped == /\ isAttached(lhVal) /\ isAttached(rhVal)
                  /\ HoldTypeOf(lvl, lhVal) = "finish"
                  /\ HoldTypeOf(lvl, rhVal) = "finish"
        status1 == IF topped THEN "topped" ELSE prev.status
        status2 == IF status1 = "idle" /\ NotNull(val) THEN "climbing" ELSE status1
    IN  [prev EXCEPT !.limbs = nextLimbs, !.status = status2]

\* handleUpdateCOM
UpdateCOM(prev, newCOM) == [prev EXCEPT !.centerOfMass = newCOM]

\* the chalk handler's updater
\* an updater that takes the stamina also when the chalk bag is full
ChalkUpAtFull(prev) ==
    [prev EXCEPT !.chalk = Min(1000000, prev.chalk + 50000),
                 !.stamina = Max(0, prev.stamina - 10000)]

ChalkUp(prev) ==
    IF prev.chalk >= 1000000 THEN prev
    ELSE [prev EXCEPT !.chalk = Min(1000000, prev.chalk + 50000),
                      !.stamina = Max(0, prev.stamina - 10000)]

----------------------------------------------------------------------------
(* BoulderingWall: drag handlers *)

AttachedCount(limbs) == Cardinality({l \in Limbs : isAttached(limbs[l])})

OverStretched(com, limbs, limb) ==
    /\ isAttached(limbs[limb])
    /\ DistSq(Anchor(com, limb), limbs[limb])
         > ((LimbReach(limb) * 105) \div 100) * ((LimbReach(limb) * 105) \div 100)

\* onPlaceLimb(null, limb) for one limb of the body drag, when it is over-stretched
DragDetach(c, lvl, com, limbs, limb) ==
    IF OverStretched(com, limbs, limb) THEN PlaceLimb(c, lvl, Null, limb) ELSE c

\* handleMouseMove, dragTarget = 'COM', at least one limb attached
BodyDrag(c, lvl, p, offset) ==
    LET com == Point(p.x + offset.x, p.y + offset.y)
        c1 == DragDetach(c, lvl, com, c.limbs, "leftHand")
        c2 == DragDetach(c1, lvl, com, c.limbs, "rightHand")
        c3 == DragDetach(c2, lvl, com, c.limbs, "leftFoot")
        c4 == DragDetach(c3, lvl, com, c.limbs, "rightFoot")
    IN  UpdateCOM(c4, constrainBodyPosition(com, c.limbs))

\* handleMouseMove, dragTarget = 'COM', nothing attached, on the ground
WalkDrag(c, lvl, p, offset) ==
    LET standingHeight == getGroundY(lvl) - 1400
        walkCOM == constrainBodyPosition(Point(p.x + offset.x, standingHeight), c.limbs)
    IN  UpdateCOM(c, Point(walkCOM.x, standingHeight))

\* handleMouseMove, dragTarget a limb: the body pull
LimbDrag(c, p, limb) ==
    LET anchorPos == Anchor(c.centerOfMass, limb)
        pullLimit == (LimbReach(limb) * 9) \div 10
        dx == anchorPos.x - p.x
        dy == anchorPos.y - p.y
        currentDist == Sqrt(dx * dx + dy * dy)
        newCOM == Point(p.x + RDiv(dx * pullLimit, currentDist) - AnchorOffset(limb).x,
                        p.y + RDiv(dy * pullLimit, currentDist) - AnchorOffset(limb).y)
        draggingLimbsOverride == [c.limbs EXCEPT ![limb] = Smear(p.x, p.y)]
    IN  IF dx * dx + dy * dy > pullLimit * pullLimit
        THEN UpdateCOM(c, constrainBodyPosition(newCOM, draggingLimbsOverride))
        ELSE c

\* level.holds.find(h => calculateDistance(p, h) < 6): its index, or 0
ClosestHold(lvl, p) ==
    LET hits == {i \in 1..Len(lvl.holds) : DistSq(p, lvl.holds[i]) < 600 * 600}
    IN  IF hits = {} THEN 0 ELSE CHOOSE i \in hits : \A j \in hits : i <= j

\* a drop that lets any limb smear where no hold is
DropValueSmearAny(c, lvl, p, limb) ==
    IF isReachable(Anchor(c.centerOfMass, limb), p, LimbReach(limb))
    THEN Smear(p.x, p.y)
    ELSE Null

\* the value handleMouseUp hands to onPlaceLimb
DropValue(c, lvl, p, limb) ==
    LET i == ClosestHold(lvl, p)
        origin == Anchor(c.centerOfMass, limb)
        maxLen == LimbReach(limb)
    IN  IF i # 0
        THEN LET h == lvl.holds[i]
                 holdRadius == IF h.type = "volume" THEN 500
                               ELSE IF h.type = "jug" THEN 300 ELSE 200
                 dx == p.x - h.x
                 dy == p.y - h.y
                 dist == Sqrt(dx * dx + dy * dy)
                 target == IF dx * dx + dy * dy > holdRadius * holdRadius
                           THEN Point(h.x + RDiv(dx * holdRadius, dist),
                                      h.y + RDiv(dy * holdRadius, dist))
                           ELSE p
             IN  IF isReachable(origin, target, (maxLen * 12) \div 10)
                 THEN Attached(h.id, target.x, target.y)
                 ELSE Null
        ELSE IF limb \in {"leftFoot", "rightFoot"} /\ isReachable(origin, p, maxLen)
        THEN Smear(p.x, p.y)
        ELSE Null

----------------------------------------------------------------------------
(* Inputs *)

\* elapsed time of a frame, ms (the loop clamps it to 50)
FrameTimes == {16, 50}

\* where the pointer is when a drag moves or ends
PointerPoints ==
    { Point(4500, 7000),    \* on the left start hold of every route
      Point(5000, 8000),    \* above the standing pose, between the shoulders
      Point(1000, 5000) }   \* far from the climber and from every hold

\* the hold types the editor's tool palette is switched between
EditorTools == {"jug", "finish"}

\* where the editor adds a hold: in reach of the standing pose
EditorPoints == { Point(5000, 7800) }

\* the holds of the route the editor's user clicks on: the first and the last
EditorHoldPicks(lvl) == {i \in {1, Len(lvl.holds)} : i >= 1}

\* generateLevel's fallback route, returned when the request fails
FALLBACK_HOLDS ==
    << Hold("f_start", 5000, 9000, "start", 0),
       Hold("f_end", 5000, 2000, "finish", 0),
       Hold("f_mid", 5000, 5500, "jug", 0) >>

\* what a pending generation settles with: the holds of the new route, or
\* "failed" when generateLevelFromImage throws
GenerateOutcomes == {"holds", "failed"}

\* Math.random().toString(36): an id no hold of the route carries yet
NewHoldId(lvl) ==
    "e" \o ToString(CHOOSE k \in 1..(Len(lvl.holds) + 1) :
                        /\ \A i \in 1..Len(lvl.holds) : lvl.holds[i].id # "e" \o ToString(k)
                        /\ \A j \in 1..(k - 1) :
                              \E i \in 1..Len(lvl.holds) : lvl.holds[i].id = "e" \o ToString(j))

\* the fewest frames of at most 50 ms that accumulate acc ms after a drain
\* evaluation
FramesSince(acc) == (acc + 49) \div 50

\* no helper has been called on its own
NoCall == [fn |-> "none"]

Event(name) == [name |-> name, evaluated |-> FALSE, limb |-> "none"]

\* the event of handleMouseUp handing the dragged limb to onPlaceLimb
Placed(limb) == [name |-> "place", evaluated |-> FALSE, limb |-> limb]

----------------------------------------------------------------------------------------------------------------------------------------
(* Initial states.  The first is the state App constructs.  The others are *)
(* states of a session in progress, each the product of the handlers and   *)
(* the loop below from the constructed state; the runs start from them     *)
(* because the events and the hundreds of drain evaluations that lead      *)
(* there exceed MaxEvents and MaxTicks.                                    *)

Pose(lvl, limbs, com, status) ==
    [StartClimber(lvl) EXCEPT !.limbs = limbs, !.centerOfMass = com, !.status = status]

Scene(lvl, c, infinite, acc, slip) ==
    [level |-> lvl, climber |-> c, infiniteStamina |-> infinite,
     staminaAccumulator |-> acc, isSlipping |-> slip,
     prevCOM |-> c.centerOfMass, generating |-> << >>]

\* useState / useRef initialisers
Constructed == Scene(SAMPLE_LEVELS[1], StartClimber(SAMPLE_LEVELS[1]), FALSE, 0, FALSE)

\* 'Intro Warmup' after the editor added a finish hold at the one editor
\* point (Editor, tool finish, click, Play)
EditedLevel ==
    [SAMPLE_LEVELS[1] EXCEPT
        !.holds = Append(@, Hold(NewHoldId(SAMPLE_LEVELS[1]), 5000, 7800, "finish", 0))]

\* On the edited route, after a fall and its landing (stamina 50): the left
\* hand was dropped on the added finish hold and one grounded frame ran,
\* which made the climber idle again and recovered 0.5 stamina.
StandingOnFinish ==
    Scene(EditedLevel,
          [Pose(EditedLevel,
                [getStartLimbs(EditedLevel) EXCEPT
                    !.leftHand = Attached(NewHoldId(SAMPLE_LEVELS[1]), 5000, 8000)],
                getStartCom(EditedLevel), "idle")
             EXCEPT !.stamina = 505000],
          FALSE, 0, FALSE)

\* On the slab 'Slab Ballet' with the stamina override on: the body dragged
\* up on the left start hold, both feet taken off the wall, two 50 ms frames
\* since the last drain evaluation, which scored the balance 100.
SlabHang ==
    Scene(SAMPLE_LEVELS[3],
          [Pose(SAMPLE_LEVELS[3],
                [AllDetached EXCEPT !.leftHand = Attached("s1", 4500, 7000)],
                Point(5000, 8200), "climbing")
             EXCEPT !.balance = 10000],
          TRUE, 100, TRUE)

\* On the overhang 'Crimp City', left hand and left foot on crimps, two 50 ms
\* frames since the last of the drain evaluations that brought stamina,
\* chalk and the left arm's pump to these values.
CrimpHang(stamina, leftPump) ==
    Scene(SAMPLE_LEVELS[2],
          [Pose(SAMPLE_LEVELS[2],
                [AllDetached EXCEPT !.leftHand = Attached("c1", 3500, 6000),
                                    !.leftFoot = Attached("ft1", 3500, 9500)],
                Point(4100, 7900), "climbing")
             EXCEPT !.stamina = stamina,
                    !.armPump = [left |-> leftPump, right |-> 0],
                    !.chalk = 830000,
                    !.balance = 5508],
          FALSE, 100, FALSE)

\* The fall that the exhausted CrimpHang(200, 400000) starts, ten 50 ms
\* frames later: the frame that emptied the stamina left the body at y = 80.05,
\* every falling frame added 1.5.
FallingLow ==
    [Scene(SAMPLE_LEVELS[2],
           [Pose(SAMPLE_LEVELS[2], AllDetached, Point(4100, 9505), "falling")
              EXCEPT !.stamina = 0,
                     !.armPump = [left |-> 401200, right |-> 0],
                     !.chalk = 829800,
                     !.balance = 5508,
                     !.velocity = Point(0, 48)],
           FALSE, 0, TRUE)
       EXCEPT !.prevCOM = Point(4100, 9355)]

\* The constructed state after Editor, 'Generate from Text' and Play: the
\* request is in flight, its handler holds the resetClimber of 'Intro Warmup'.
GeneratePending ==
    [Constructed EXCEPT !.generating = << SAMPLE_LEVELS[1] >>]

Scenes ==
    { Constructed, StandingOnFinish, SlabHang,
      CrimpHang(200, 400000),        \* stamina 0.02: the next core drain empties it
      CrimpHang(600000, 999000),     \* left pump 99.9: the next pump delta fills it
      FallingLow, GeneratePending }

Init ==
    /\ \E s \in Scenes :
          /\ level = s.level
          /\ climber = s.climber
          /\ infiniteStamina = s.infiniteStamina
          /\ staminaAccumulator = s.staminaAccumulator
          /\ isSlipping = s.isSlipping
          /\ prevCOM = s.prevCOM
          /\ generating = s.generating
    /\ mode = "play"
    /\ editorTool = "jug"
    /\ realismMode = FALSE
    /\ isUserDragging = FALSE
    /\ dragTarget = "none"
    /\ dragOffset = Point(0, 0)
    /\ sinceEvaluation = FramesSince(staminaAccumulator)
    /\ call = NoCall
    /\ lastEvent = Event("init")
    /\ ticks = 0
    /\ events = 0

----------------
(* Actions *)

\* requestAnimationFrame(loop): one frame with safeDt > 0
LoopFrame(dt) ==
    /\ mode = "play"
    /\ Min(dt, 50) > 0
    /\ LET Commit(r) ==
               /\ climber' = r.c
               /\ staminaAccumulator' = r.acc
               /\ isSlipping' = r.slip
               /\ lastEvent' = [name |-> "loop", evaluated |-> r.evaluated, limb |-> "none"]
               /\ sinceEvaluation' = IF r.evaluated THEN 0 ELSE Min(3, sinceEvaluation + 1)
       IN  Commit(Frame(climber, prevCOM, staminaAccumulator, isSlipping, level,
                        realismMode, infiniteStamina, isUserDragging, Min(dt, 50)))
    /\ prevCOM' = climber.centerOfMass
    /\ ticks' = ticks + 1
    /\ UNCHANGED <<generating, call, level, mode, editorTool, infiniteStamina, realismMode,
                   isUserDragging, dragTarget, dragOffset, events>>

\* the frames of a run, counted up to MaxTicks
Loop(dt) == ticks < MaxTicks /\ LoopFrame(dt)

\* a handler ran: e records which kind, and the limb of a placement
UserEvent(e) ==
    /\ events < MaxEvents
    /\ events' = events + 1
    /\ lastEvent' = e
    /\ UNCHANGED <<ticks, call, sinceEvaluation>>

\* The pointer is over the HUD, the navigation bar or a drag handle with its
\* button up: a drag in progress has ended before, on the wall's mouseup or
\* mouseleave.
PointerFree == dragTarget = "none"

\* the state of the App that the wall's and the HUD's handlers leave alone
Settings == <<level, mode, editorTool, infiniteStamina, realismMode>>

\* keydown 'c'
HandleKeyDown ==
    /\ climber.status = "climbing"
    /\ climber' = ChalkUp(climber)
    /\ UserEvent(Event("other"))
    /\ UNCHANGED <<generating, Settings, isUserDragging, isSlipping,
                   staminaAccumulator, prevCOM, dragTarget, dragOffset>>

\* GameHUD onReset
ResetClimber ==
    /\ mode = "play"
    /\ PointerFree
    /\ climber' = StartClimber(level)
    /\ isSlipping' = FALSE
    /\ prevCOM' = getStartCom(level)
    /\ UserEvent(Event("reset"))
    /\ UNCHANGED <<generating, Settings, isUserDragging,
                   staminaAccumulator, dragTarget, dragOffset>>

\* a route selection that leaves the climber where it is
HandleLevelChangeKeepClimber(newLevel) ==
    /\ mode = "play"
    /\ PointerFree
    /\ level' = newLevel
    /\ UserEvent(Event("reset"))
    /\ UNCHANGED <<generating, climber, isSlipping, prevCOM, mode, editorTool,
                   infiniteStamina, realismMode, isUserDragging, staminaAccumulator,
                   dragTarget, dragOffset>>

HandleLevelChange(newLevel) ==
    /\ mode = "play"
    /\ PointerFree
    /\ level' = newLevel
    /\ climber' = StartClimber(newLevel)
    /\ isSlipping' = FALSE
    /\ prevCOM' = getStartCom(newLevel)
    /\ UserEvent(Event("reset"))
    /\ UNCHANGED <<generating, mode, editorTool, infiniteStamina, realismMode, isUserDragging,
                   staminaAccumulator, dragTarget, dragOffset>>

ToggleInfiniteStamina ==
    /\ mode = "play"
    /\ PointerFree
    /\ infiniteStamina' = ~infiniteStamina
    /\ UserEvent(Event("other"))
    /\ UNCHANGED <<generating, climber, level, mode, editorTool, realismMode, isUserDragging, isSlipping,
                   staminaAccumulator, prevCOM, dragTarget, dragOffset>>

ToggleRealismMode ==
    /\ mode = "play"
    /\ PointerFree
    /\ realismMode' = ~realismMode
    /\ UserEvent(Event("other"))
    /\ UNCHANGED <<generating, climber, level, mode, editorTool, infiniteStamina, isUserDragging, isSlipping,
                   staminaAccumulator, prevCOM, dragTarget, dragOffset>>

\* mousedown on a limb handle
HandleLimbDragStart(limb) ==
    /\ mode = "play"
    /\ PointerFree
    /\ climber.status # "topped"
    /\ dragTarget' = limb
    /\ isUserDragging' = TRUE
    /\ UserEvent(Event("other"))
    /\ UNCHANGED <<generating, climber, Settings, isSlipping,
                   staminaAccumulator, prevCOM, dragOffset>>

\* mousedown on the body handle, the pointer at p
HandleBodyDragStart(p) ==
    /\ mode = "play"
    /\ PointerFree
    /\ climber.status \notin {"topped", "falling"}
    /\ \/ AttachedCount(climber.limbs) # 0
       \/ climber.centerOfMass.y >= (getGroundY(level) - 1400) - 200
    /\ dragOffset' = Point(climber.centerOfMass.x - p.x, climber.centerOfMass.y - p.y)
    /\ dragTarget' = "COM"
    /\ isUserDragging' = TRUE
    /\ UserEvent(Event("other"))
    /\ UNCHANGED <<generating, climber, Settings, isSlipping,
                   staminaAccumulator, prevCOM>>

\* mousemove at p while dragging
HandleMouseMove(p) ==
    /\ dragTarget # "none"
    /\ IF dragTarget = "COM"
       THEN IF AttachedCount(climber.limbs) = 0
            THEN IF climber.centerOfMass.y < getGroundY(level) - 1600
                 THEN \* cannot fly: the drag is cancelled
                      /\ dragTarget' = "none"
                      /\ isUserDragging' = FALSE
                      /\ UNCHANGED climber
                 ELSE /\ climber' = WalkDrag(climber, level, p, dragOffset)
                      /\ UNCHANGED <<dragTarget, isUserDragging>>
            ELSE /\ climber' = BodyDrag(climber, level, p, dragOffset)
                 /\ UNCHANGED <<dragTarget, isUserDragging>>
       ELSE /\ climber' = LimbDrag(climber, p, dragTarget)
            /\ UNCHANGED <<dragTarget, isUserDragging>>
    /\ UserEvent(Event("other"))
    /\ UNCHANGED <<generating, Settings, isSlipping,
                   staminaAccumulator, prevCOM, dragOffset>>

\* mouseup / mouseleave at p
HandleMouseUp(p) ==
    /\ climber' = IF dragTarget \in Limbs
                  THEN PlaceLimb(climber, level, DropValue(climber, level, p, dragTarget),
                                 dragTarget)
                  ELSE climber
    /\ dragTarget' = "none"
    /\ dragOffset' = Point(0, 0)
    /\ isUserDragging' = FALSE
    /\ UserEvent(IF dragTarget \in Limbs THEN Placed(dragTarget) ELSE Event("other"))
    /\ UNCHANGED <<generating, Settings, isSlipping, staminaAccumulator, prevCOM>>

\* an Editor button that does not reset the climber
SetModeKeepClimber(m) ==
    /\ PointerFree
    /\ mode' = m
    /\ UserEvent(Event(IF m = "editor" THEN "reset" ELSE "other"))
    /\ UNCHANGED <<generating, climber, isSlipping, prevCOM, level, editorTool,
                   infiniteStamina, realismMode, isUserDragging, staminaAccumulator,
                   dragTarget, dragOffset>>

\* the Play and Editor buttons of the navigation bar
SetMode(m) ==
    /\ PointerFree
    /\ mode' = m
    /\ IF m = "editor"
       THEN /\ climber' = StartClimber(level)
            /\ isSlipping' = FALSE
            /\ prevCOM' = getStartCom(level)
       ELSE UNCHANGED <<climber, isSlipping, prevCOM>>
    /\ UserEvent(Event(IF m = "editor" THEN "reset" ELSE "other"))
    /\ UNCHANGED <<generating, level, editorTool, infiniteStamina, realismMode, isUserDragging,
                   staminaAccumulator, dragTarget, dragOffset>>

\* EditorControls: pick the hold type the next click adds
SetEditorTool(tool) ==
    /\ mode = "editor"
    /\ PointerFree
    /\ editorTool' = tool
    /\ UserEvent(Event("other"))
    /\ UNCHANGED <<generating, climber, level, mode, infiniteStamina, realismMode, isUserDragging,
                   isSlipping, staminaAccumulator, prevCOM, dragTarget, dragOffset>>

\* mousedown on the wall in editor mode: a new hold at p
HandleEditorCanvasClick(p) ==
    /\ mode = "editor"
    /\ PointerFree
    /\ level' = [level EXCEPT !.holds = Append(@, Hold(NewHoldId(level), p.x, p.y, editorTool, 0))]
    /\ UserEvent(Event("other"))
    /\ UNCHANGED <<generating, climber, mode, editorTool, infiniteStamina, realismMode, isUserDragging,
                   isSlipping, staminaAccumulator, prevCOM, dragTarget, dragOffset>>

\* a click on hold i of the route in editor mode: its mousedown reaches the
\* wall (handleMouseDown adds a hold of the current tool there), its click
\* removes the hold
HandleEditorHoldClick(i) ==
    /\ mode = "editor"
    /\ PointerFree
    /\ i \in 1..Len(level.holds)
    /\ LET hold == level.holds[i]
           keep(h) == h.id # hold.id
       IN  level' = [level EXCEPT
                        !.holds = SelectSeq(Append(@, Hold(NewHoldId(level), hold.x, hold.y,
                                                           editorTool, 0)),
                                            keep)]
    /\ UserEvent(Event("other"))
    /\ UNCHANGED <<generating, climber, mode, editorTool, infiniteStamina, realismMode,
                   isUserDragging, isSlipping, staminaAccumulator, prevCOM, dragTarget,
                   dragOffset>>

\* EditorControls onClear
ClearHolds ==
    /\ mode = "editor"
    /\ PointerFree
    /\ level' = [level EXCEPT !.holds = << >>]
    /\ UserEvent(Event("other"))
    /\ UNCHANGED <<generating, climber, mode, editorTool, infiniteStamina, realismMode,
                   isUserDragging, isSlipping, staminaAccumulator, prevCOM, dragTarget,
                   dragOffset>>

\* handleGenerateLevel / handleImageUpload up to their await: the buttons are
\* rendered in editor mode and disabled while a request is in flight
HandleGenerateLevel ==
    /\ mode = "editor"
    /\ PointerFree
    /\ generating = << >>
    /\ generating' = << level >>
    /\ UserEvent(Event("other"))
    /\ UNCHANGED <<climber, level, mode, editorTool, infiniteStamina, realismMode,
                   isUserDragging, isSlipping, staminaAccumulator, prevCOM, dragTarget,
                   dragOffset>>

\* the rest of the handler, when the request settles: setLevel with the new
\* holds unless it failed, then the resetClimber the handler closed over
GenerateSettled(outcome) ==
    /\ generating # << >>
    /\ level' = IF outcome = "holds" THEN [level EXCEPT !.holds = FALLBACK_HOLDS] ELSE level
    /\ climber' = StartClimber(generating[1])
    /\ isSlipping' = FALSE
    /\ prevCOM' = getStartCom(generating[1])
    /\ generating' = << >>
    /\ UserEvent(Event("reset"))
    /\ UNCHANGED <<mode, editorTool, infiniteStamina, realismMode, isUserDragging,
                   staminaAccumulator, dragTarget, dragOffset>>

Next ==
    \/ \E dt \in FrameTimes : Loop(dt)
    \/ HandleKeyDown
    \/ ResetClimber
    \/ \E i \in 1..Len(SAMPLE_LEVELS) : HandleLevelChange(SAMPLE_LEVELS[i])
    \/ ToggleInfiniteStamina
    \/ ToggleRealismMode
    \/ \E limb \in Limbs : HandleLimbDragStart(limb)
    \/ HandleBodyDragStart(climber.centerOfMass)
    \/ \E p \in PointerPoints : HandleMouseMove(p)
    \/ \E p \in PointerPoints : HandleMouseUp(p)
    \/ \E m \in {"play", "editor"} : SetMode(m)
    \/ \E tool \in EditorTools : SetEditorTool(tool)
    \/ \E p \in EditorPoints : HandleEditorCanvasClick(p)
    \/ \E i \in EditorHoldPicks(level) : HandleEditorHoldClick(i)
    \/ ClearHolds
    \/ HandleGenerateLevel
    \/ \E outcome \in GenerateOutcomes : GenerateSettled(outcome)

Spec == Init /\ [][Next]_vars

----------------------------------------------------------------------------
(* The frame as a function.  TickSpec applies the loop to inputs drawn     *)
(* independently: every pose of Scenes, also with one attached limb's      *)
(* holdId not in the route, under every flag setting, with the accumulator *)
(* empty or full and the previous-frame reference at or beside the body.   *)

\* limb attached to a hold the route does not have
Unresolved(c, limb) == [c EXCEPT !.limbs[limb].holdId = "removed"]

\* staminaAccumulatorRef.current before the frame
TickAccumulators == {0, 100}

\* centerOfMass - prevCOMRef.current before the frame
TickMovements == {Point(0, 0), Point(50, 0)}

TickInit ==
    /\ \E s \in Scenes, stale \in Limbs \cup {"none"}, d \in TickMovements :
          /\ stale \in Limbs => isAttached(s.climber.limbs[stale])
          /\ climber = IF stale \in Limbs THEN Unresolved(s.climber, stale) ELSE s.climber
          /\ level = s.level
          /\ prevCOM = Point(s.climber.centerOfMass.x - d.x, s.climber.centerOfMass.y - d.y)
    /\ staminaAccumulator \in TickAccumulators
    /\ infiniteStamina \in BOOLEAN
    /\ realismMode \in BOOLEAN
    /\ isUserDragging \in BOOLEAN
    /\ isSlipping = FALSE
    /\ mode = "play"
    /\ editorTool = "jug"
    /\ dragTarget = "none"
    /\ dragOffset = Point(0, 0)
    /\ generating = << >>
    /\ sinceEvaluation = FramesSince(staminaAccumulator)
    /\ call = NoCall
    /\ lastEvent = Event("init")
    /\ ticks = 0
    /\ events = 0

TickNext == \E dt \in FrameTimes : Loop(dt)

TickSpec == TickInit /\ [][TickNext]_vars

----------------------------------------------------------------------------
(* Frames of a body that momentum carries away from its holds *)

\* the displacement of the frame before, in hundredths: at rest, a drift, and
\* swings that carry the anchors beyond the reach of a limb
SwingMovements ==
    {Point(0, 0), Point(50, 0), Point(1500, 0), Point(-2500, 0), Point(0, -1500),
     Point(0, 2500), Point(900, -900)}

SwingScenes == {SlabHang, CrimpHang(600000, 400000), CrimpHang(200, 400000)}

SwingInit ==
    /\ \E s \in SwingScenes, d \in SwingMovements :
          /\ climber = s.climber
          /\ level = s.level
          /\ staminaAccumulator = s.staminaAccumulator
          /\ infiniteStamina = s.infiniteStamina
          /\ prevCOM = Point(s.climber.centerOfMass.x - d.x, s.climber.centerOfMass.y - d.y)
    /\ realismMode = FALSE
    /\ isUserDragging = FALSE
    /\ isSlipping = FALSE
    /\ mode = "play"
    /\ editorTool = "jug"
    /\ dragTarget = "none"
    /\ dragOffset = Point(0, 0)
    /\ generating = << >>
    /\ sinceEvaluation = FramesSince(staminaAccumulator)
    /\ call = NoCall
    /\ lastEvent = Event("init")
    /\ ticks = 0
    /\ events = 0

SwingNext == \E dt \in FrameTimes : ticks < MaxFrames /\ LoopFrame(dt)

SwingSpec == SwingInit /\ [][SwingNext]_vars

----------------------------------------------------------------------------
(* The drain interval: runs of up to MaxFrames frames of the loop alone,   *)
(* from the scenes, with frames shorter than, equal to and longer than the *)
(* 50 ms the loop clamps them to.                                          *)

\* elapsed time of a frame, ms: a 60 Hz frame, a slow frame, a paused tab
DrainFrameTimes == {16, 50, 120}

DrainInit ==
    /\ \E s \in Scenes :
          /\ level = s.level
          /\ climber = s.climber
          /\ infiniteStamina = s.infiniteStamina
          /\ staminaAccumulator = s.staminaAccumulator
          /\ isSlipping = s.isSlipping
          /\ prevCOM = s.prevCOM
    /\ realismMode = FALSE
    /\ isUserDragging \in BOOLEAN
    /\ mode = "play"
    /\ editorTool = "jug"
    /\ dragTarget = "none"
    /\ dragOffset = Point(0, 0)
    /\ generating = << >>
    /\ sinceEvaluation = FramesSince(staminaAccumulator)
    /\ call = NoCall
    /\ lastEvent = Event("init")
    /\ ticks = 0
    /\ events = 0

DrainNext == \E dt \in DrainFrameTimes : ticks < MaxFrames /\ LoopFrame(dt)

DrainSpec == DrainInit /\ [][DrainNext]_vars

----------------------------------------------------------------------------
(* A fall left to the frame loop: from the first falling frame on, no user *)
(* event, the loop rescheduling itself until the climber has landed.  The  *)
(* frames after the landing are not followed.                              *)

\* a falling climber on the route, the previous frame having moved it by d
Falling(lvl, com, d) ==
    [level |-> lvl,
     climber |-> [Pose(lvl, AllDetached, com, "falling") EXCEPT !.stamina = 0],
     prevCOM |-> Point(com.x - d.x, com.y - d.y)]

\* falls about to land, just started on a boulder, swinging into the left
\* wall, and from high on the sport route
Falls ==
    { Falling(SAMPLE_LEVELS[2], Point(4100, 9505), Point(0, 150)),
      Falling(SAMPLE_LEVELS[2], Point(4100, 8005), Point(0, 100)),
      Falling(SAMPLE_LEVELS[2], Point(300, 8600), Point(-400, 20)),
      Falling(SAMPLE_LEVELS[4], Point(5000, 6000), Point(0, 150)) }

FallInit ==
    /\ \E s \in Falls :
          /\ climber = s.climber
          /\ level = s.level
          /\ prevCOM = s.prevCOM
    /\ realismMode = FALSE
    /\ infiniteStamina = FALSE
    /\ staminaAccumulator = 0
    /\ isUserDragging = FALSE
    /\ isSlipping = FALSE
    /\ mode = "play"
    /\ editorTool = "jug"
    /\ dragTarget = "none"
    /\ dragOffset = Point(0, 0)
    /\ generating = << >>
    /\ sinceEvaluation = FramesSince(staminaAccumulator)
    /\ call = NoCall
    /\ lastEvent = Event("init")
    /\ ticks = 0
    /\ events = 0

FallNext == \E dt \in FrameTimes : climber.status = "falling" /\ LoopFrame(dt)

\* the loop reschedules itself at the end of every frame
FallSpec == FallInit /\ [][FallNext]_vars /\ WF_vars(FallNext)

----------------------------------------------------------------------------
(* Falls with sideways momentum, on displays of several refresh rates *)

\* dt of a frame at 120 Hz, at 60 Hz and of a frame that reached the 50 ms cap
MomentumFrameTimes == {8, 16, 50}

\* falls from high on the sport route and on a boulder, drifting by 1 and by
\* 4 a frame to either side
MomentumFalls ==
    { Falling(SAMPLE_LEVELS[4], Point(5000, 6000), Point(-400, 150)),
      Falling(SAMPLE_LEVELS[4], Point(5000, 6000), Point(100, 150)),
      Falling(SAMPLE_LEVELS[2], Point(4100, 8005), Point(400, 150)) }

MomentumInit ==
    /\ \E s \in MomentumFalls :
          /\ climber = s.climber
          /\ level = s.level
          /\ prevCOM = s.prevCOM
    /\ realismMode = FALSE
    /\ infiniteStamina = FALSE
    /\ staminaAccumulator = 0
    /\ isUserDragging = FALSE
    /\ isSlipping = FALSE
    /\ mode = "play"
    /\ editorTool = "jug"
    /\ dragTarget = "none"
    /\ dragOffset = Point(0, 0)
    /\ generating = << >>
    /\ sinceEvaluation = FramesSince(staminaAccumulator)
    /\ call = NoCall
    /\ lastEvent = Event("init")
    /\ ticks = 0
    /\ events = 0

MomentumNext ==
    \E dt \in MomentumFrameTimes :
       ticks < MaxFrames /\ climber.status = "falling" /\ LoopFrame(dt)

MomentumSpec == MomentumInit /\ [][MomentumNext]_vars

----------------------------------------------------------------------------
(* Key presses, in every status and at several chalk levels *)

\* the keys pressed: the chalk key in either case, and another key
Keys == {"c", "C", "x"}

\* chalk levels: empty, half, 97 (less than 5 below full) and full
KeyChalks == {0, 500000, 970000, 1000000}

KeyInit ==
    /\ \E s \in Scenes, chalk \in KeyChalks :
          /\ climber = [s.climber EXCEPT !.chalk = chalk]
          /\ level = s.level
          /\ prevCOM = s.prevCOM
          /\ infiniteStamina = s.infiniteStamina
          /\ staminaAccumulator = s.staminaAccumulator
          /\ isSlipping = s.isSlipping
    /\ realismMode = FALSE
    /\ isUserDragging = FALSE
    /\ mode = "play"
    /\ editorTool = "jug"
    /\ dragTarget = "none"
    /\ dragOffset = Point(0, 0)
    /\ generating = << >>
    /\ sinceEvaluation = FramesSince(staminaAccumulator)
    /\ call = NoCall
    /\ lastEvent = Event("init")
    /\ ticks = 0
    /\ events = 0

\* handleKeyDown on the window, for any key and in any status
KeyDown(key) ==
    /\ climber' = IF key \in {"c", "C"} /\ climber.status = "climbing"
                  THEN ChalkUp(climber)
                  ELSE climber
    /\ UserEvent([name |-> "keydown", evaluated |-> FALSE, limb |-> "none", key |-> key])
    /\ UNCHANGED <<generating, Settings, isUserDragging, isSlipping,
                   staminaAccumulator, prevCOM, dragTarget, dragOffset>>

KeyNext == \E key \in Keys : KeyDown(key)

KeySpec == KeyInit /\ [][KeyNext]_vars

----------------------------------------------------------------------------
(* Frames with the infinite-stamina override on *)

\* the slab hang; the same climber after letting go of the last hold at
\* y = 81, not yet falling; a rested climber about to land; and a pumped
\* crimp hang
InfiniteScenes ==
    { SlabHang,
      [SlabHang EXCEPT !.climber.limbs = AllDetached,
                       !.climber.centerOfMass = Point(5000, 8100),
                       !.climber.balance = 0,
                       !.prevCOM = Point(5000, 8100)],
      [FallingLow EXCEPT !.climber.stamina = 1000000],
      CrimpHang(600000, 999000) }

InfiniteInit ==
    /\ \E s \in InfiniteScenes :
          /\ climber = s.climber
          /\ level = s.level
          /\ prevCOM = s.prevCOM
          /\ staminaAccumulator = s.staminaAccumulator
          /\ isSlipping = s.isSlipping
    /\ infiniteStamina = TRUE
    /\ realismMode \in BOOLEAN
    /\ isUserDragging = FALSE
    /\ mode = "play"
    /\ editorTool = "jug"
    /\ dragTarget = "none"
    /\ dragOffset = Point(0, 0)
    /\ generating = << >>
    /\ sinceEvaluation = FramesSince(staminaAccumulator)
    /\ call = NoCall
    /\ lastEvent = Event("init")
    /\ ticks = 0
    /\ events = 0

\* the frames of a fall from the height of the start holds to the ground
InfiniteNext == \E dt \in FrameTimes : ticks < MaxFallFrames /\ LoopFrame(dt)

InfiniteSpec == InfiniteInit /\ [][InfiniteNext]_vars

----------------------------------------------------------------------------
(* Limb drags onto holds that lie at the edge of the reach *)

\* pointer positions on the centre of a hold: the right foothold and the two
\* start holds of 'Crimp City'
DropPoints == {Point(6500, 9500), Point(4500, 7000), Point(5500, 7000)}

DropScenes == {CrimpHang(600000, 400000), SlabHang, Constructed}

DropInit ==
    /\ \E s \in DropScenes :
          /\ climber = s.climber
          /\ level = s.level
          /\ prevCOM = s.prevCOM
          /\ infiniteStamina = s.infiniteStamina
          /\ staminaAccumulator = s.staminaAccumulator
          /\ isSlipping = s.isSlipping
    /\ realismMode = FALSE
    /\ isUserDragging = FALSE
    /\ mode = "play"
    /\ editorTool = "jug"
    /\ dragTarget = "none"
    /\ dragOffset = Point(0, 0)
    /\ generating = << >>
    /\ sinceEvaluation = FramesSince(staminaAccumulator)
    /\ call = NoCall
    /\ lastEvent = Event("init")
    /\ ticks = 0
    /\ events = 0

DropNext ==
    \/ \E limb \in Limbs : HandleLimbDragStart(limb)
    \/ \E p \in DropPoints : HandleMouseMove(p)
    \/ \E p \in DropPoints : HandleMouseUp(p)

DropSpec == DropInit /\ [][DropNext]_vars

----------------------------------------------------------------------------
(* The helpers of utils/gameUtils called on their own: from the poses and  *)
(* routes of the scenes, each helper is applied once to arguments the      *)
(* program passes it, and its arguments and result are kept in `call`.     *)

CallInit ==
    /\ \E s \in Scenes :
          /\ climber = s.climber
          /\ level = s.level
          /\ prevCOM = s.prevCOM
    /\ realismMode \in BOOLEAN
    /\ infiniteStamina = FALSE
    /\ staminaAccumulator = 0
    /\ isUserDragging = FALSE
    /\ isSlipping = FALSE
    /\ mode = "play"
    /\ editorTool = "jug"
    /\ dragTarget = "none"
    /\ dragOffset = Point(0, 0)
    /\ generating = << >>
    /\ sinceEvaluation = FramesSince(staminaAccumulator)
    /\ call = NoCall
    /\ lastEvent = Event("init")
    /\ ticks = 0
    /\ events = 0

\* the helper ran: nothing of the application changes
Called(c) ==
    /\ call' = c
    /\ UNCHANGED <<climber, level, mode, editorTool, infiniteStamina, realismMode,
                   isUserDragging, isSlipping, staminaAccumulator, prevCOM, dragTarget,
                   dragOffset, generating, sinceEvaluation, lastEvent, ticks, events>>

\* newCOM of the limb drag: the anchor of the dragged limb at pullLimit from
\* the pointer
PullCOM(c, p, limb) ==
    LET anchorPos == Anchor(c.centerOfMass, limb)
        pullLimit == (LimbReach(limb) * 9) \div 10
        dx == anchorPos.x - p.x
        dy == anchorPos.y - p.y
        currentDist == Sqrt(dx * dx + dy * dy)
    IN  Point(p.x + RDiv(dx * pullLimit, currentDist) - AnchorOffset(limb).x,
              p.y + RDiv(dy * pullLimit, currentDist) - AnchorOffset(limb).y)

\* constrainBodyPosition as handleMouseMove calls it: for the body drag
\* (limb = "none") on the pointer position and the climber's limbs, for a
\* limb drag on the pulled center of mass and draggingLimbsOverride
ConstrainBodyCall(p, limb) ==
    /\ limb \in Limbs =>
          DistSq(Anchor(climber.centerOfMass, limb), p)
             > ((LimbReach(limb) * 9) \div 10) * ((LimbReach(limb) * 9) \div 10)
    /\ LET limbs == IF limb \in Limbs
                    THEN [climber.limbs EXCEPT ![limb] = Smear(p.x, p.y)]
                    ELSE climber.limbs
           proposedCOM == IF limb \in Limbs THEN PullCOM(climber, p, limb) ELSE p
       IN  Called([fn |-> "constrainBodyPosition", proposedCOM |-> proposedCOM,
                   limbs |-> limbs,
                   out |-> constrainBodyPosition(proposedCOM, limbs)])

IKArgs(p1, p2, length1, length2, bendRight) ==
    [p1 |-> p1, p2 |-> p2, length1 |-> length1, length2 |-> length2,
     bendRight |-> bendRight]

\* the joints ClimberAvatar solves for the limbs that are set: the shoulder
\* or hip, the limb's position, the two segment lengths, the bend side
AvatarJoints(c) ==
    { IKArgs(Anchor(c.centerOfMass, l), Point(c.limbs[l].x, c.limbs[l].y),
             IF l \in {"leftHand", "rightHand"} THEN ANATOMY.armUpper ELSE ANATOMY.legUpper,
             IF l \in {"leftHand", "rightHand"} THEN ANATOMY.armLower ELSE ANATOMY.legLower,
             l \in {"rightHand", "leftFoot"}) :
        l \in {k \in Limbs : NotNull(c.limbs[k])} }

\* a limb whose end lies on its own shoulder or hip, and a target twice the
\* length of the two segments away
DegenerateJoints(c) ==
    { IKArgs(Anchor(c.centerOfMass, "rightHand"), Anchor(c.centerOfMass, "rightHand"),
             ANATOMY.armUpper, ANATOMY.armLower, TRUE),
      IKArgs(Anchor(c.centerOfMass, "leftFoot"), Anchor(c.centerOfMass, "leftFoot"),
             ANATOMY.legUpper, ANATOMY.legLower, TRUE),
      IKArgs(Point(0, 0), Point(0, 0), 500, 500, TRUE),
      IKArgs(Point(0, 0), Point(0, 0), 700, 500, FALSE),
      IKArgs(Point(0, 0), Point(2000, 0), 500, 500, TRUE) }

SolveIKCall(a) ==
    Called([fn |-> "solveIK", p1 |-> a.p1, p2 |-> a.p2, length1 |-> a.length1,
            length2 |-> a.length2, bendRight |-> a.bendRight,
            out |-> solveIK(a.p1, a.p2, a.length1, a.length2, a.bendRight)])

\* wall angles of the editor's slider the helpers are called with
CallAngles == {-10, 0, 30, 45}

\* chalk levels: empty, the 30 below which the penalty starts, full
CallChalks == {0, 300000, 1000000}

\* velocities the loop measures: at rest, a drift, a sideways move, a fast
\* sideways drag
CallVelocities == {Point(0, 0), Point(5, 0), Point(-50, 20), Point(1000, 0)}

PhysicsCall(fn, state, wallAngle, out) ==
    Called([fn |-> fn, state |-> state, wallAngle |-> wallAngle,
            realism |-> realismMode, out |-> out])

\* getFrictionPenalty(nextState, level.holds, level.angle, realismMode)
FrictionCall(chalk, wallAngle) ==
    PhysicsCall("getFrictionPenalty", [climber EXCEPT !.chalk = chalk], wallAngle,
                getFrictionPenalty([climber EXCEPT !.chalk = chalk], level.holds,
                                   wallAngle, realismMode))

\* both feet off the wall, or the feet on the i-th and the j-th hold
FeetOn(state, holds, i, j) ==
    [state EXCEPT
       !.limbs.leftFoot = IF i = 0 THEN Null ELSE Attached(holds[i].id, holds[i].x, holds[i].y),
       !.limbs.rightFoot = IF j = 0 THEN Null ELSE Attached(holds[j].id, holds[j].x, holds[j].y)]

\* the foot placements tried: cut loose, and on the first two holds
CallFeet == {<<0, 0>>, <<1, 2>>}

\* calculateTickDrain(nextState, level.holds, HOLD_STAMINA_DRAIN, level.angle, realismMode)
TickDrainCall(feet, wallAngle) ==
    PhysicsCall("calculateTickDrain", FeetOn(climber, level.holds, feet[1], feet[2]),
                wallAngle,
                calculateTickDrain(FeetOn(climber, level.holds, feet[1], feet[2]),
                                   level.holds, wallAngle, realismMode))

\* calculateStability(nextState, level.holds, level.angle, realismMode)
StabilityCall(v, wallAngle) ==
    PhysicsCall("calculateStability", [climber EXCEPT !.velocity = v], wallAngle,
                calculateStability([climber EXCEPT !.velocity = v], level.holds,
                                   wallAngle, realismMode))

\* pointer positions of a body drag that bring the shoulder or hip of a held
\* limb to 0.05 from the limb
CrunchPoints(c) ==
    { Point(c.limbs[l].x - AnchorOffset(l).x - 5, c.limbs[l].y - AnchorOffset(l).y) :
        l \in {k \in Limbs : NotNull(c.limbs[k])} }

CallNext ==
    \/ \E p \in PointerPoints, limb \in Limbs \cup {"none"} : ConstrainBodyCall(p, limb)
    \/ \E p \in CrunchPoints(climber) : ConstrainBodyCall(p, "none")
    \/ \E chalk \in CallChalks, a \in CallAngles : FrictionCall(chalk, a)
    \/ \E feet \in CallFeet, a \in CallAngles : TickDrainCall(feet, a)
    \/ \E v \in CallVelocities, a \in CallAngles : StabilityCall(v, a)
    \/ \E a \in AvatarJoints(climber) \cup DegenerateJoints(climber) : SolveIKCall(a)

CallSpec == CallInit /\ [][CallNext]_vars

----------------------------------------------------------------------------
(* Properties *)

\* this state is the result of a frame of the loop
AfterTick == lastEvent.name = "loop"

\* ... of a frame in which the drain interval fired
AfterEvaluation == AfterTick /\ lastEvent.evaluated

\* this step is a frame of the loop
TickStep == ticks' = ticks + 1

\* this step handed a dropped limb to handlePlaceLimb
PlaceStep == events' = events + 1 /\ lastEvent'.name = "place"

\* C1: in every reachable state, a falling climber has all four limbs
\* detached.
C1_FallingDetached ==
    climber.status = "falling" => climber.limbs = AllDetached

C3_ToppedFrozen ==
    [][(climber.status = "topped" /\ TickStep)
          => /\ climber'.stamina = climber.stamina
             /\ climber'.armPump = climber.armPump
             /\ climber'.chalk = climber.chalk
             /\ climber'.limbs = climber.limbs]_vars

\* C4: a frame that starts topped ends topped.
C4_ToppedStays ==
    [][(climber.status = "topped" /\ TickStep) => climber'.status = "topped"]_vars

\* C5: a frame or a limb placement changes the status of an idle, climbing or
\* falling climber only along idle -> climbing, climbing -> idle,
\* climbing -> falling, climbing -> topped, falling -> idle.
C5_StatusEdges ==
    [][((TickStep \/ PlaceStep) /\ climber.status # "topped"
            /\ climber'.status # climber.status)
          => <<climber.status, climber'.status>> \in
                { <<"idle", "climbing">>, <<"climbing", "idle">>,
                  <<"climbing", "falling">>, <<"climbing", "topped">>,
                  <<"falling", "idle">> }]_vars

\* C6: after every frame run while the user is not dragging, an idle climber
\* is in the ground zone.
C6_IdleOnGround ==
    (AfterTick /\ ~isUserDragging /\ climber.status = "idle")
        => climber.centerOfMass.y >= getGroundY(level) - 1600

\* C7: stamina, chalk, both arm pumps and balance lie in [0, 100] in every
\* reachable state.
C7_Clamped ==
    /\ climber.stamina \in 0..1000000
    /\ climber.chalk \in 0..1000000
    /\ climber.armPump.left \in 0..1000000
    /\ climber.armPump.right \in 0..1000000
    /\ climber.balance \in 0..10000

\* a drain evaluation whose core drain exceeded the stamina left
C7_Witness ==
    AfterEvaluation /\ ~infiniteStamina /\ climber.stamina = 0 /\ climber.chalk < 1000000

\* C8: at the end of every frame run while the user is not dragging, a climber
\* with no hand attached and the center of mass more than 18 above the ground
\* is not climbing; if it is falling, all four limbs are detached.
C8_UnsupportedFalls ==
    (AfterTick /\ ~isUserDragging /\ HandCount(climber.limbs) = 0
        /\ climber.centerOfMass.y < getGroundY(level) - 1800)
        => /\ climber.status # "climbing"
           /\ climber.status = "falling" => climber.limbs = AllDetached

\* the frame in which a pumped-out hand let go and the fall followed
C8_Witness ==
    /\ AfterEvaluation /\ ~isUserDragging /\ HandCount(climber.limbs) = 0
    /\ climber.centerOfMass.y < getGroundY(level) - 1800
    /\ climber.armPump.left = 1000000 /\ climber.stamina > 0
    /\ climber.balance < 10000
    /\ climber.status = "falling"

\* C9: after every drain evaluation with the stamina override off that left
\* no stamina, the climber is falling with all four limbs detached.
C9_StaminaFall ==
    (AfterEvaluation /\ ~infiniteStamina /\ climber.stamina <= 0)
        => (climber.status = "falling" /\ climber.limbs = AllDetached)

\* exhausted, and neither off balance nor pumped out
C9_Witness ==
    /\ AfterEvaluation /\ ~infiniteStamina /\ climber.stamina <= 0
    /\ climber.balance < 10000
    /\ climber.armPump.left < 1000000 /\ climber.armPump.right < 1000000
    /\ climber.status = "falling" /\ climber.limbs = AllDetached

\* C10: after every drain evaluation with the stamina override off, an arm
\* whose pump is 100 has its hand detached.
C10_PumpDetach ==
    (AfterEvaluation /\ ~infiniteStamina)
        => /\ climber.armPump.left >= 1000000 => ~NotNull(climber.limbs.leftHand)
           /\ climber.armPump.right >= 1000000 => ~NotNull(climber.limbs.rightHand)

\* the left arm pumped out with stamina to spare
C10_Witness ==
    /\ AfterEvaluation /\ ~infiniteStamina
    /\ climber.armPump.left >= 1000000 /\ ~NotNull(climber.limbs.leftHand)
    /\ climber.stamina > 100000

\* C11: a limb placement changes only the placed limb and the status: topped
\* when both hands are then attached to holds the route resolves to type
\* finish, else climbing when the status was idle and the placed value is not
\* detached, else the status it had; stamina, both arm pumps, chalk, balance,
\* center of mass and the other three limbs stay as they were.
C11_PlaceLimbFrame ==
    [][PlaceStep =>
         LET limb == lastEvent'.limb
             val == climber'.limbs[limb]
             lh == climber'.limbs.leftHand
             rh == climber'.limbs.rightHand
             bothFinish == /\ isAttached(lh) /\ isAttached(rh)
                           /\ HoldTypeOf(level, lh) = "finish"
                           /\ HoldTypeOf(level, rh) = "finish"
         IN  /\ \A l \in Limbs \ {limb} : climber'.limbs[l] = climber.limbs[l]
             /\ climber'.status =
                    IF bothFinish THEN "topped"
                    ELSE IF climber.status = "idle" /\ NotNull(val) THEN "climbing"
                    ELSE climber.status
             /\ climber'.stamina = climber.stamina
             /\ climber'.armPump = climber.armPump
             /\ climber'.chalk = climber.chalk
             /\ climber'.balance = climber.balance
             /\ climber'.centerOfMass = climber.centerOfMass]_vars

\* the first placement of the session: the left hand on a hold, from idle
C11_Witness ==
    /\ lastEvent = Placed("leftHand") /\ ticks = 0 /\ events = 2
    /\ isAttached(climber.limbs.leftHand) /\ climber.limbs.rightHand = Null
    /\ climber.status = "climbing" /\ climber.stamina = INITIAL_STAMINA

\* C12: a frame that starts falling with the center of mass at or below
\* groundY - 5 lands: idle, both hands detached, both feet smearing at
\* y = groundY, center of mass at groundY - 14, stamina 50 whatever it was;
\* a falling frame above that height moves the center of mass down and
\* leaves stamina, both arm pumps and chalk as they were.
C12_FallAndLand ==
    [][(TickStep /\ climber.status = "falling") =>
         IF climber.centerOfMass.y >= getGroundY(level) - 500
         THEN /\ climber'.status = "idle"
              /\ climber'.limbs.leftHand = Null /\ climber'.limbs.rightHand = Null
              /\ isSmearing(climber'.limbs.leftFoot)
              /\ isSmearing(climber'.limbs.rightFoot)
              /\ climber'.limbs.leftFoot.y = getGroundY(level)
              /\ climber'.limbs.rightFoot.y = getGroundY(level)
              /\ climber'.centerOfMass.y = getGroundY(level) - 1400
              /\ climber'.stamina = 500000
         ELSE /\ climber'.status = "falling"
              /\ climber'.centerOfMass.y = climber.centerOfMass.y + 150
              /\ climber'.stamina = climber.stamina
              /\ climber'.armPump = climber.armPump
              /\ climber'.chalk = climber.chalk]_vars

\* landed with the pump and chalk of the fall, the empty stamina now 50
C12_Witness ==
    /\ AfterTick /\ ticks = 1 /\ events = 0
    /\ climber.status = "idle" /\ climber.stamina = 500000
    /\ climber.armPump.left = 401200 /\ climber.chalk = 829800
    /\ climber.centerOfMass.y = getGroundY(level) - 1400

\* C13: a frame that starts with an idle climber in the ground zone with no
\* hand attached ends with such a climber again, the stamina not lower than
\* before; balance and arm pumps that were 0 and feet that were not detached
\* stay so, and when the user is not dragging the frame itself zeroes balance
\* and pumps and puts both feet down.
C13_StandingIdle ==
    [][(TickStep /\ climber.status = "idle" /\ HandCount(climber.limbs) = 0
          /\ climber.centerOfMass.y >= getGroundY(level) - 1600) =>
         /\ climber'.stamina >= climber.stamina
         /\ climber'.status = "idle"
         /\ HandCount(climber'.limbs) = 0
         /\ climber'.centerOfMass.y >= getGroundY(level) - 1600
         /\ climber.balance = 0 => climber'.balance = 0
         /\ climber.armPump = [left |-> 0, right |-> 0] => climber'.armPump = climber.armPump
         /\ \A f \in {"leftFoot", "rightFoot"} :
               NotNull(climber.limbs[f]) => NotNull(climber'.limbs[f])
         /\ ~isUserDragging =>
               /\ climber'.balance = 0
               /\ climber'.armPump = [left |-> 0, right |-> 0]
               /\ NotNull(climber'.limbs.leftFoot) /\ NotNull(climber'.limbs.rightFoot)]_vars

\* the second frame on the ground after a landing: stamina 50 -> 50.5
C13_Witness ==
    /\ AfterTick /\ ticks = 2 /\ events = 0
    /\ climber.status = "idle" /\ HandCount(climber.limbs) = 0
    /\ climber.centerOfMass.y >= getGroundY(level) - 1600
    /\ climber.stamina = 505000 /\ climber.armPump.left = 0

\* limb l is attached to a hold id the route does not resolve
Unresolvable(l) ==
    /\ isAttached(climber.limbs[l])
    /\ FindHold(level.holds, climber.limbs[l].holdId) = 0

C15_DraggingFreezes ==
    [][(TickStep /\ isUserDragging) =>
         /\ climber'.centerOfMass = climber.centerOfMass
         /\ climber'.limbs = climber.limbs
         /\ climber'.stamina = climber.stamina
         /\ climber'.armPump = climber.armPump
         /\ climber'.chalk = climber.chalk
         /\ climber'.status = climber.status]_vars

\* C16: the ClimberState a frame produces is determined by the ClimberState
\* before it, the route, the flags and the elapsed time: it is the one the
\* frame produces from any other accumulator and previous-frame reference.
C16_TickDeterministic ==
    [][TickStep =>
         \E dt \in FrameTimes :
            \A acc \in TickAccumulators, d \in TickMovements :
               climber' = Frame(climber,
                                Point(climber.centerOfMass.x - d.x,
                                      climber.centerOfMass.y - d.y),
                                acc, isSlipping, level, realismMode, infiniteStamina,
                                isUserDragging, dt).c]_vars

\* C17: while the mode is editor no frame runs, and the climber keeps the
\* pose the Editor button reset it to for as long as the mode stays editor.
C17_EditorFreezes ==
    [][mode = "editor" =>
         /\ ~TickStep
         /\ mode' = "editor" => climber' = climber]_vars

\* this state is the result of resetClimber or handleLevelChange
AfterReset == lastEvent.name = "reset"

\* C18: after a reset or a route selection both hands are detached, both feet
\* smear at y = groundY of the selected route, the center of mass is
\* (50, groundY - 14), stamina and chalk are 100, arm pumps, balance and
\* velocity are 0, the status is idle, and the next frame measures the
\* velocity (0, 0).
C18_ResetState ==
    AfterReset =>
        /\ climber.limbs.leftHand = Null /\ climber.limbs.rightHand = Null
        /\ isSmearing(climber.limbs.leftFoot) /\ isSmearing(climber.limbs.rightFoot)
        /\ climber.limbs.leftFoot.y = getGroundY(level)
        /\ climber.limbs.rightFoot.y = getGroundY(level)
        /\ climber.centerOfMass = Point(5000, getGroundY(level) - 1400)
        /\ climber.stamina = 1000000 /\ climber.chalk = 1000000
        /\ climber.armPump = [left |-> 0, right |-> 0]
        /\ climber.balance = 0
        /\ climber.velocity = Point(0, 0)
        /\ climber.status = "idle"
        /\ \A dt \in FrameTimes :
              FrameVelocity(climber.centerOfMass, prevCOM, dt) = Point(0, 0)

\* C19: in every reachable state the holdId of every attached limb is the id
\* of a hold of the active route.
C19_AttachedResolves ==
    \A l \in Limbs :
       isAttached(climber.limbs[l]) =>
          \E i \in 1..Len(level.holds) : level.holds[i].id = climber.limbs[l].holdId

\* the right hand dropped on a start hold of the route selected three
\* events ago
C19_Witness ==
    /\ events = 3 /\ lastEvent = Placed("rightHand")
    /\ level.id = "lvl11"
    /\ isAttached(climber.limbs.rightHand) /\ climber.limbs.rightHand.holdId = "s1"
    /\ climber.limbs.leftHand = Null

\* C20: in every reachable state the climber has exactly the four limbs, and
\* each hand is detached or attached to a hold: only a foot can be a
\* smearing point.
C20_HandsNeverSmear ==
    /\ DOMAIN climber.limbs = Limbs
    /\ \A l \in Limbs :
          \/ ~NotNull(climber.limbs[l])
          \/ isAttached(climber.limbs[l])
          \/ isSmearing(climber.limbs[l]) /\ l \in {"leftFoot", "rightFoot"}

\* a hand dropped in reach of the shoulder where the route has no hold
C20_Witness ==
    /\ lastEvent = Placed("rightHand") /\ climber.limbs.rightHand = Null
    /\ isReachable(Anchor(climber.centerOfMass, "rightHand"), Point(5000, 8000),
                   LimbReach("rightHand"))
    /\ ClosestHold(level, Point(5000, 8000)) = 0
    /\ events = 2 /\ ticks = 0

\* C21: after constrainBodyPosition every limb that is set lies within
\* 1.001 x its maximum reach (13 for a hand, 16 for a foot) of its anchor at
\* the adjusted center of mass, also when limbs pull in opposite directions.
C21_ReachAfterConstrain ==
    call.fn = "constrainBodyPosition" =>
       \A l \in Limbs :
          NotNull(call.limbs[l]) =>
             calculateDistance(Anchor(call.out, l), call.limbs[l]) * 1000
                <= LimbReach(l) * 1001

\* C22: when the target is at least length1 + length2 - 0.1 from the root,
\* solveIK returns the point of the root-to-target ray at distance length1
\* from the root; solveIK({0,0}, {20,0}, 5, 5, true) is {5, 0}.
C22_ExtendedAtLength1 ==
    (/\ call.fn = "solveIK"
     /\ calculateDistance(call.p1, call.p2) >= call.length1 + call.length2 - 10)
    => /\ FinitePoint(call.out)
       /\ Abs(calculateDistance(call.p1, call.out) - call.length1) <= 1
       /\ (call.p1 = Point(0, 0) /\ call.p2 = Point(2000, 0) /\ call.length1 = 500)
             => call.out = Point(500, 0)

\* C23: when root and target coincide solveIK returns a point with finite
\* coordinates at distance length1 from the root (within the rounding of
\* one hundredth).
C23_DegenerateFinite ==
    (call.fn = "solveIK" /\ call.p1 = call.p2)
    => /\ FinitePoint(call.out)
       /\ Abs(calculateDistance(call.p1, call.out) - call.length1) <= 1

\* the elbow solved for a hand lying on its own shoulder
C23_Witness ==
    /\ call.fn = "solveIK" /\ call.p1 = call.p2
    /\ call.p1 = Anchor(climber.centerOfMass, "rightHand")
    /\ call.length1 = ANATOMY.armUpper
    /\ FinitePoint(call.out) /\ call.out # call.p1

\* C24: on a vertical wall (wallAngle 0) the friction penalty of a state with
\* chalk 0 is strictly greater than the penalty of the same state with chalk
\* 100, for every limb configuration, center of mass and realism setting.
C24_ChalkDepletion ==
    (call.fn = "getFrictionPenalty" /\ call.wallAngle = 0 /\ call.state.chalk = 0)
    => call.out > getFrictionPenalty([call.state EXCEPT !.chalk = 1000000],
                                     level.holds, 0, call.realism)

\* the penalty of the chalkless climber hanging from a crimp, realism on
C24_Witness ==
    /\ call.fn = "getFrictionPenalty" /\ call.wallAngle = 0 /\ call.state.chalk = 0
    /\ call.realism
    /\ isAttached(call.state.limbs.leftHand) /\ isAttached(call.state.limbs.leftFoot)
    /\ call.out >= 2400

\* exactly this hand is attached, and to a crimp of the route
OnlyHandOnCrimp(state, hand, other) ==
    /\ isAttached(state.limbs[hand])
    /\ ~NotNull(state.limbs[other])
    /\ FindHold(level.holds, state.limbs[hand].holdId) # 0
    /\ level.holds[FindHold(level.holds, state.limbs[hand].holdId)].type = "crimp"

\* C25: at wallAngle 30 with one hand attached to a crimp, the core drain
\* with both feet detached is strictly greater than the core drain of the
\* same state with both feet attached to holds.
C25_CampusingDrain ==
    (/\ call.fn = "calculateTickDrain" /\ call.wallAngle = 30
     /\ \/ OnlyHandOnCrimp(call.state, "leftHand", "rightHand")
        \/ OnlyHandOnCrimp(call.state, "rightHand", "leftHand")
     /\ call.state.limbs.leftFoot = Null /\ call.state.limbs.rightFoot = Null)
    => \A i, j \in 1..Len(level.holds) :
          call.out.core > calculateTickDrain(FeetOn(call.state, level.holds, i, j),
                                             level.holds, 30, call.realism).core

\* the feet-cut drain of the climber hanging from crimp c1 of 'Crimp City'
C25_Witness ==
    /\ call.fn = "calculateTickDrain" /\ call.wallAngle = 30
    /\ OnlyHandOnCrimp(call.state, "leftHand", "rightHand")
    /\ call.state.limbs.leftFoot = Null /\ call.state.limbs.rightFoot = Null
    /\ call.out.core >= 1500

\* the states of the barn-door scenario: exactly one hand set, attached to
\* a hold, the feet less than 10 apart, moving sideways
BarnDoorState(state) ==
    /\ \E h \in {"leftHand", "rightHand"} :
          /\ isAttached(state.limbs[h])
          /\ FindHold(level.holds, state.limbs[h].holdId) # 0
          /\ \A k \in {"leftHand", "rightHand"} \ {h} : ~NotNull(state.limbs[k])
    /\ (NotNull(state.limbs.leftFoot) /\ NotNull(state.limbs.rightFoot))
          => Abs(state.limbs.leftFoot.x - state.limbs.rightFoot.x) < 1000
    /\ state.velocity.x # 0

\* C26 as stated: for every such state the score at wallAngle 45 is strictly
\* greater than the score at wallAngle 0, also where the score is clamped
\* at 100.
C26_OverhangStrictlyWorse ==
    (call.fn = "calculateStability" /\ call.wallAngle = 45 /\ BarnDoorState(call.state))
    => call.out > calculateStability(call.state, level.holds, 0, call.realism)

\* C26 as amended: the score at wallAngle 45 is strictly greater than the
\* score at wallAngle 0 whenever the latter is below 100; when the score at
\* wallAngle 0 is 100 both are 100.
C26_OverhangWorseBelowClamp ==
    (call.fn = "calculateStability" /\ call.wallAngle = 45 /\ BarnDoorState(call.state))
    => IF calculateStability(call.state, level.holds, 0, call.realism) < 10000
       THEN call.out > calculateStability(call.state, level.holds, 0, call.realism)
       ELSE call.out = 10000

\* a barn-door state scored below 100 on the vertical wall and higher at 45
C26_Witness ==
    /\ call.fn = "calculateStability" /\ call.wallAngle = 45
    /\ BarnDoorState(call.state)
    /\ Abs(call.state.velocity.x) > 10
    /\ calculateStability(call.state, level.holds, 0, call.realism) < 10000
    /\ call.out > calculateStability(call.state, level.holds, 0, call.realism)

\* C27: with no user event a falling climber becomes idle after finitely many
\* frames: a falling frame above groundY - 5 adds exactly 1.5 to
\* centerOfMass.y and stays falling, a falling frame at or below it lands.
C27_FallTerminates ==
    /\ [][(TickStep /\ climber.status = "falling") =>
            IF climber.centerOfMass.y < getGroundY(level) - 500
            THEN /\ climber'.status = "falling"
                 /\ climber'.centerOfMass.y = climber.centerOfMass.y + 150
            ELSE climber'.status = "idle"]_vars
    /\ (climber.status = "falling") ~> (climber.status = "idle")

\* landed on the sport route after a fall of more than sixty frames
C27_Witness ==
    /\ climber.status = "idle" /\ AfterTick /\ ticks > 60
    /\ level.id = "sport1"
    /\ climber.centerOfMass.y = getGroundY(level) - 1400

\* C28: a frame runs the drain evaluation only when the climber is climbing,
\* the user is not manipulating and the accumulator, to which a frame adds at
\* most 50 ms, has passed 100 ms; the accumulator is 0 after an evaluation and
\* within [0, 100] after every frame, and an evaluation comes no sooner than
\* the third frame after the evaluation before it.
C28_DrainInterval ==
    [][TickStep =>
         /\ staminaAccumulator' >= 0 /\ staminaAccumulator' <= 100
         /\ lastEvent'.evaluated =>
               /\ climber.status = "climbing"
               /\ ~isUserDragging
               /\ staminaAccumulator > 50
               /\ staminaAccumulator' = 0
               /\ sinceEvaluation >= 2]_vars

\* the third evaluation of a hang: at the seventh frame, three frames after
\* the second
C28_Witness ==
    /\ AfterEvaluation /\ ticks = 7
    /\ climber.status = "climbing"
    /\ staminaAccumulator = 0 /\ sinceEvaluation = 0

\* C29: in a tick of a body off the ground that is not falling and that the
\* user is not dragging, auto-detach comes before the constraint solve. A limb
\* further than 1.05 x its reach from its anchor at the proposed centre of
\* mass is detached; a limb within that distance is kept by the step (the
\* drain evaluation and check fall run later and may still drop limbs, which
\* shows as an evaluation or as the status falling); and the centre of mass
\* is constrainBodyPosition of the proposed one on the surviving limbs only,
\* which check fall afterwards lowers by 1.0 when no hand holds.
AirborneFree ==
    /\ climber.status # "falling"
    /\ climber.centerOfMass.y < getGroundY(level) - 1600
    /\ ~isUserDragging

TooFar(limbs, limb, proposedCOM) ==
    /\ NotNull(limbs[limb])
    /\ calculateDistance(Anchor(proposedCOM, limb), limbs[limb]) * 100 > LimbReach(limb) * 105

Survivors(limbs, proposedCOM) ==
    [l \in Limbs |-> IF TooFar(limbs, l, proposedCOM) THEN Null ELSE limbs[l]]

C29_Step(n0) ==
    LET proposedCOM == ProposedCOM(n0, level)
        solved == constrainBodyPosition(proposedCOM, Survivors(climber.limbs, proposedCOM))
        nudged == /\ HandCount(climber'.limbs) = 0
                  /\ solved.y < getGroundY(level) - 1800
    IN  /\ \A l \in Limbs :
             /\ TooFar(climber.limbs, l, proposedCOM) => climber'.limbs[l] = Null
             /\ (~TooFar(climber.limbs, l, proposedCOM)
                   /\ ~lastEvent'.evaluated /\ climber'.status # "falling")
                  => climber'.limbs[l] = climber.limbs[l]
        /\ climber'.centerOfMass = IF nudged THEN Point(solved.x, solved.y + 100) ELSE solved

C29_DetachBeforeConstrain ==
    [][(TickStep /\ AirborneFree) =>
          \E safeDt \in FrameTimes :
             C29_Step([climber EXCEPT
                         !.velocity = FrameVelocity(climber.centerOfMass, prevCOM, safeDt)])]_vars

\* the crimp hang after one frame of an upward swing of 15 per frame: the
\* left foot, first held on ft1, was left behind and the left hand holds on
C29_Witness ==
    /\ AfterTick /\ ticks = 1
    /\ level.id = "lvl4"
    /\ climber.velocity = Point(0, -1500)
    /\ climber.status = "climbing"
    /\ climber.limbs.leftFoot = Null
    /\ isAttached(climber.limbs.leftHand)
    /\ climber.centerOfMass = Point(4100, 6525)

\* C30: a drain-interval evaluation whose balance score reaches 100 forces
\* the fall (the stamina override being off) and applies no fatigue drain:
\* stamina, both arm pumps and chalk are after the tick what they were before.
BalanceFallForced ==
    /\ TickStep
    /\ lastEvent'.evaluated
    /\ ~infiniteStamina
    /\ climber'.balance = 10000
    /\ climber'.status = "falling"

C30_NoDrainOnBalanceFall ==
    [][BalanceFallForced =>
          /\ climber'.stamina = climber.stamina
          /\ climber'.armPump = climber.armPump
          /\ climber'.chalk = climber.chalk]_vars

\* C31: over consecutive falling ticks above landing height the horizontal
\* momentum is damped: the horizontal displacement of the centre of mass in a
\* tick is no larger than in the tick before, and neither is |velocity.x|,
\* whatever the elapsed time of the frame in (0, 50] ms.
C31_MomentumDamped ==
    [][(TickStep /\ AfterTick /\ climber.status = "falling" /\ climber'.status = "falling") =>
          /\ Abs(climber'.centerOfMass.x - climber.centerOfMass.x)
                <= Abs(climber.centerOfMass.x - prevCOM.x)
          /\ Abs(climber'.velocity.x) <= Abs(climber.velocity.x)]_vars

\* C32: outside realism mode, a hand attached to a hold of the route, to
\* which the shake-out recovery does not apply, is pumped by
\* drainTable[hold.type] x overhangMult x footMult x 0.8, whatever the type
\* of the hold; a start hold, whose table entry is 0, pumps by 0.
C32_PumpDelta ==
    (call.fn = "calculateTickDrain" /\ ~call.realism) =>
       \A hand \in {"leftHand", "rightHand"} :
          LET val == call.state.limbs[hand]
              i == IF isAttached(val) THEN FindHold(level.holds, val.holdId) ELSE 0
              type == level.holds[i].type
              shakeOut == /\ type \in {"jug", "start", "finish"}
                          /\ call.state.balance < 4000
                          /\ call.wallAngle < 30
              overhang == IF call.wallAngle > 0 THEN 30 + call.wallAngle ELSE 30
              foot == IF call.state.limbs.leftFoot = Null /\ call.state.limbs.rightFoot = Null
                      THEN 5 ELSE 2
          IN  (i # 0 /\ ~shakeOut) =>
                 (IF hand = "leftHand" THEN call.out.leftPump ELSE call.out.rightPump)
                    = RDiv(HOLD_STAMINA_DRAIN[type] * overhang * foot * 4, 30 * 2 * 5)

\* C33: with no foot in contact and at least one hand engaged, the friction
\* penalty on a slab (negative wall angle) is lower than the penalty of the
\* same configuration at wall angle 0, and it does not by itself push the
\* stability score to 100: the score reaches 100 on the slab only where it
\* does at wall angle 0 too.
C33_SlabCampusing ==
    (/\ call.fn = "getFrictionPenalty" /\ call.wallAngle < 0
     /\ call.state.limbs.leftFoot = Null /\ call.state.limbs.rightFoot = Null
     /\ \E h \in {"leftHand", "rightHand"} : NotNull(call.state.limbs[h]))
    => /\ call.out < getFrictionPenalty(call.state, level.holds, 0, call.realism)
       /\ calculateStability(call.state, level.holds, call.wallAngle, call.realism) = 10000
            => calculateStability(call.state, level.holds, 0, call.realism) = 10000

\* C34: constrainBodyPosition is the identity on consistent input. It
\* returns the proposed centre of mass when all four limbs are detached, and
\* whenever every limb that is set lies, at the proposed centre of mass,
\* between 3.0 and 0.99 x maxReach from its anchor or no further than 0.1
\* from it.
C34_ConstrainIdentity ==
    (/\ call.fn = "constrainBodyPosition"
     /\ \A l \in Limbs :
           NotNull(call.limbs[l]) =>
              LET dd == DistSq(Anchor(call.proposedCOM, l), call.limbs[l])
                  reach == (LimbReach(l) * 99) \div 100
              IN  \/ dd >= 300 * 300 /\ dd <= reach * reach
                  \/ dd <= 10 * 10)
    => call.out = call.proposedCOM

\* the body dragged until the left shoulder is 0.05 from the only limb set,
\* the left hand on s1 of 'Slab Ballet'
C34_Witness ==
    /\ call.fn = "constrainBodyPosition"
    /\ level.id = "lvl11"
    /\ isAttached(call.limbs.leftHand)
    /\ \A l \in Limbs \ {"leftHand"} : call.limbs[l] = Null
    /\ DistSq(Anchor(call.proposedCOM, "leftHand"), call.limbs.leftHand) = 25
    /\ call.out = call.proposedCOM

\* C35: the chalk key has effect only while status = climbing and chalk <
\* 100: it sets chalk to min(100, chalk + 5) and stamina to max(0, stamina - 1)
\* and changes nothing else of the climber; with chalk = 100, in any other
\* status, or for another key, the climber is unchanged.
C35_ChalkKey ==
    [][(lastEvent'.name = "keydown" /\ events' = events + 1) =>
          climber' = IF /\ lastEvent'.key \in {"c", "C"}
                        /\ climber.status = "climbing"
                        /\ climber.chalk < 1000000
                     THEN [climber EXCEPT !.chalk = Min(1000000, climber.chalk + 50000),
                                          !.stamina = Max(0, climber.stamina - 10000)]
                     ELSE climber]_vars

\* the crimp hang with stamina 0.02 and chalk 97, after one press of the
\* chalk key: chalk is full and the stamina stopped at 0
C35_Witness ==
    /\ lastEvent.name = "keydown" /\ lastEvent.key = "c" /\ events = 1
    /\ level.id = "lvl4"
    /\ climber.status = "climbing"
    /\ climber.chalk = 1000000
    /\ climber.stamina = 0

\* C36 as stated: while the infinite-stamina override is on, no tick
\* decreases stamina, increases either arm pump or changes chalk, in
\* whatever status, the landing after a fall included.
C36_InfiniteStaminaNoLoss ==
    [][(TickStep /\ infiniteStamina) =>
          /\ climber'.stamina >= climber.stamina
          /\ climber'.armPump.left <= climber.armPump.left
          /\ climber'.armPump.right <= climber.armPump.right
          /\ climber'.chalk = climber.chalk]_vars

\* C36 amended: while the override is on, no tick increases either arm pump
\* or changes chalk, and no tick decreases stamina except the tick in which a
\* fall lands, which sets stamina to 50.
C36_InfiniteStaminaButLanding ==
    [][(TickStep /\ infiniteStamina) =>
          /\ \/ climber'.stamina >= climber.stamina
             \/ /\ climber.status = "falling" /\ climber'.status = "idle"
                /\ climber'.stamina = 500000
          /\ climber'.armPump.left <= climber.armPump.left
          /\ climber'.armPump.right <= climber.armPump.right
          /\ climber'.chalk = climber.chalk]_vars

\* the climber who let go on the slab with the override on and stamina 100,
\* landed: idle on the ground with stamina 50
C36_Witness ==
    /\ AfterTick /\ infiniteStamina
    /\ level.id = "lvl11"
    /\ ticks >= 10
    /\ climber.status = "idle"
    /\ climber.stamina = 500000
    /\ climber.centerOfMass.y = getGroundY(level) - 1400

\* C37: a hold placement is accepted by the placement handler only if the
\* point on the hold is within 1.05 x maxReach of the limb's anchor at the
\* current centre of mass, so that the attachment survives the auto-detach
\* check of the next tick when the centre of mass has not moved. The
\* placements looked at are those of a drag that had settled: a further mouse
\* move at the drop point would not have pulled the body any more.
SettledDrop(limb, val) ==
    /\ isAttached(val)
    /\ dragTarget = limb
    /\ LimbDrag(climber, Point(val.x, val.y), limb) = climber

C37_AcceptedWithinDetachReach ==
    [][(PlaceStep /\ SettledDrop(lastEvent'.limb, climber'.limbs[lastEvent'.limb])) =>
          /\ calculateDistance(Anchor(climber'.centerOfMass, lastEvent'.limb),
                               climber'.limbs[lastEvent'.limb]) * 100
                <= LimbReach(lastEvent'.limb) * 105
          /\ ~TooFar(climber'.limbs, lastEvent'.limb,
                     ProposedCOM([climber' EXCEPT !.velocity = Point(0, 0)], level))]_vars

\* C38: when a level-generation or image-import request completes, whatever
\* routes were selected and modes switched while it was pending, the climber
\* is reset to the standing pose of the route active at completion: the
\* centre of mass at groundY - 14 and both feet at groundY of that route.
C38_SettledOnActiveRoute ==
    [][(generating # << >> /\ generating' = << >>) =>
          /\ climber'.centerOfMass.y = getGroundY(level') - 1400
          /\ NotNull(climber'.limbs.leftFoot) /\ NotNull(climber'.limbs.rightFoot)
          /\ climber'.limbs.leftFoot.y = getGroundY(level')
          /\ climber'.limbs.rightFoot.y = getGroundY(level')]_vars

====
